------------------------------ MODULE Pipeline ------------------------------
(***************************************************************************)
(* The re-ingestion contract: which components a result names, and how a    *)
(* caller learns that a document has to be parsed again (pipeline.py,       *)
(* domain/pipeline.py).  Software is installed, upgraded and removed while  *)
(* the server is down; a server probes it once, when it starts.  Probes of  *)
(* tools fail for reasons of their own, too.                                *)
(*                                                                         *)
(* Documents are kinds: a class of extensions and an OCR mode.  A result is *)
(* the stamp that came with it, wherever its caller or the job store keeps  *)
(* it.                                                                      *)
(***************************************************************************)
EXTENDS Naturals, FiniteSets

CONSTANTS
    Documents,      \* kinds of documents, see Document
    Versions,       \* versions software is installed in
    IM7,            \* those of ImageMagick that are called magick, not convert
    Missing,        \* no version: not installed
    Unavailable,    \* what a component whose probe fails is recorded as
    Null,           \* no stamp
    MaxUpgrades,    \* bound: changes of the installed software
    MaxFailures     \* bound: probes that fail although their tool is there

Document == [format : {"pdf", "office", "image", "svg"}, ocr : BOOLEAN]

ASSUME ConstantsAssumption ==
    /\ Documents \subseteq Document
    /\ IM7 \subseteq Versions
    /\ {Missing, Unavailable} \cap Versions = {} /\ Missing # Unavailable
    /\ MaxUpgrades \in Nat /\ MaxFailures \in Nat

Component ==
    {"bscribe", "liteparse", "pdfium", "tesseract", "tessdata", "imagemagick",
     "libreoffice", "ghostscript", "librsvg"}

\* What is installed; PDFium and Tesseract come inside liteparse.
Software == Component \ {"pdfium", "tesseract"}
Packages == {"bscribe", "liteparse"}

\* The probes that may fail by themselves: the tessdata files cannot be read,
\* a command does not run, times out, or prints something else.
Probes == {"tessdata", "convert", "magick", "soffice", "gs", "rsvg-convert"}

VARIABLES
    installed,      \* per software, its version or Missing
    stamp,          \* app.state.pipeline_info of the running server, or Null
    result,         \* per document, the stamp of its last result, or Null
    used,           \* history: per document, the software that result came from
    upgrades, failures  \* counters of the bounds

vars == <<installed, stamp, result, used, upgrades, failures>>

-----------------------------------------------------------------------------
\* domain/pipeline.py

\* A hash of the sorted key=version lines: equal for equal maps, whatever
\* their order, and (collisions aside) for no others.
compute_fingerprint(components) == {<<c, components[c]>> : c \in DOMAIN components}

IsImage(d) == d.format \in {"image", "svg"}         \* IMAGE_EXTENSIONS

\* Fault: an SVG is taken to go through librsvg instead of ImageMagick.
TraversedElif(d) ==
    {"bscribe", "liteparse", "pdfium"}
        \cup (IF d.format = "office" THEN {"libreoffice"} ELSE {})
        \cup (IF d.format = "image" THEN {"imagemagick"} ELSE {})
        \cup (IF d.format = "svg" THEN {"librsvg"} ELSE {})
        \cup (IF d.ocr THEN {"tesseract", "tessdata"} ELSE {})

\* Fault: OCR is taken to run whenever it is installed.
TraversedWithOcr(d) ==
    {"bscribe", "liteparse", "pdfium", "tesseract", "tessdata"}
        \cup (IF d.format = "office" THEN {"libreoffice"} ELSE {})
        \cup (IF IsImage(d) THEN {"imagemagick"} ELSE {})
        \cup (IF d.format = "svg" THEN {"librsvg"} ELSE {})

traversed_components(d) ==
    {"bscribe", "liteparse", "pdfium"}
        \cup (IF d.format = "office" THEN {"libreoffice"} ELSE {})
        \cup (IF IsImage(d) THEN {"imagemagick"} ELSE {})
        \cup (IF d.format = "svg" THEN {"librsvg"} ELSE {})
        \cup (IF d.ocr THEN {"tesseract", "tessdata"} ELSE {})

\* A component the stamp does not know is left out.
traversed_stamp(info, d) ==
    [fingerprint |-> info.fingerprint,
     components  |-> [c \in traversed_components(d) \cap DOMAIN info.components |->
                         info.components[c]]]

-----------------------------------------------------------------------------
\* pipeline.py

\* Fault: a tool that is not there is recorded as nothing at all.
ProbeOrNothing(x, probe, broken) == IF probe \in broken THEN Unavailable ELSE installed[x]

\* A probe of software x: its version, or Unavailable if it is not there or
\* the probe is one of the broken ones.
Probe(x, probe, broken) ==
    IF installed[x] = Missing \/ probe \in broken THEN Unavailable ELSE installed[x]

Bundled(version) == IF version = Unavailable THEN Unavailable ELSE <<"bundled", version>>

\* convert first, then magick; only one of them is there.
Imagemagick(broken) ==
    IF installed["imagemagick"] \in IM7
    THEN Probe("imagemagick", "magick", broken)
    ELSE Probe("imagemagick", "convert", broken)

Discovered(broken) ==
    [c \in Component |->
        CASE c \in {"pdfium", "tesseract"} ->
                Bundled(Probe("liteparse", "metadata", broken))
          [] c \in Packages      -> Probe(c, "metadata", broken)
          [] c = "tessdata"      -> Probe(c, "tessdata", broken)
          [] c = "imagemagick"   -> Imagemagick(broken)
          [] c = "libreoffice"   -> Probe(c, "soffice", broken)
          [] c = "ghostscript"   -> Probe(c, "gs", broken)
          [] c = "librsvg"       -> Probe(c, "rsvg-convert", broken)]

\* create_app: discover_pipeline runs once in the life of a process.
Boot(broken) ==
    /\ stamp = Null /\ failures + Cardinality(broken) <= MaxFailures
    /\ failures' = failures + Cardinality(broken)
    /\ stamp' = [fingerprint |-> compute_fingerprint(Discovered(broken)),
                 components  |-> Discovered(broken)]
    /\ UNCHANGED <<installed, result, used, upgrades>>

Stop ==
    /\ stamp # Null /\ stamp' = Null
    /\ UNCHANGED <<installed, result, used, upgrades, failures>>

\* A tool is installed, replaced or removed; the packages are only replaced.
Install(x, v) ==
    /\ stamp = Null /\ upgrades < MaxUpgrades
    /\ v # installed[x] /\ (v = Missing => x \notin Packages)
    /\ upgrades' = upgrades + 1
    /\ installed' = [installed EXCEPT ![x] = v]
    /\ UNCHANGED <<stamp, result, used, failures>>

\* The software a parse of d really runs.
Engine(d) ==
    Packages
        \cup (IF d.format = "office" THEN {"libreoffice"} ELSE {})
        \cup (IF d.format \in {"image", "svg"} THEN {"imagemagick"} ELSE {})
        \cup (IF d.format = "svg" THEN {"librsvg"} ELSE {})
        \cup (IF d.ocr THEN {"tessdata"} ELSE {})

\* WorkerPool.parse stamps a result when it comes back from its worker.
Parse(d) ==
    /\ stamp # Null /\ \A x \in Engine(d) : installed[x] # Missing
    /\ result' = [result EXCEPT ![d] = traversed_stamp(stamp, d)]
    /\ used' = [used EXCEPT ![d] = installed]
    /\ UNCHANGED <<installed, stamp, upgrades, failures>>

Init ==
    /\ \E v \in Versions : installed = [x \in Software |-> v]
    /\ stamp = Null
    /\ result = [d \in Documents |-> Null]
    /\ used = [d \in Documents |-> installed]
    /\ upgrades = 0 /\ failures = 0

Next ==
    \/ \E broken \in SUBSET Probes : Boot(broken)
    \/ Stop
    \/ \E x \in Software, v \in Versions \cup {Missing} : Install(x, v)
    \/ \E d \in Documents : Parse(d)

Spec == Init /\ [][Next]_vars

-----------------------------------------------------------------------------
\* What a caller does with the result it stored and with GET /v1/info.

SameFingerprint(d) == result[d].fingerprint = stamp.fingerprint

Differs(d, c) ==
    c \notin DOMAIN stamp.components \/ result[d].components[c] # stamp.components[c]

Reparses(d) == ~SameFingerprint(d) /\ \E c \in DOMAIN result[d].components : Differs(d, c)

Comparable(d) == result[d] # Null /\ stamp # Null

\* The probe of component c failed when s was made.
Unprobed(s, c) == c \in DOMAIN s.components /\ s.components[c] = Unavailable

Values == Versions \cup {Unavailable} \cup {Bundled(v) : v \in Versions}

TypeOK ==
    /\ installed \in [Software -> Versions \cup {Missing}]
    /\ stamp = Null \/ stamp.components \in [Component -> Values]
    /\ \A d \in Documents :
           result[d] = Null \/ result[d].components \in [traversed_components(d) -> Values]
    /\ upgrades \in 0 .. MaxUpgrades /\ failures \in 0 .. MaxFailures

\* Nothing is missed: if a piece of the software a document was parsed with is
\* no longer what is installed, its caller is told so, unless the probe of that
\* very piece failed both then and now, whatever else was or was not probed.
NoMissedReparse ==
    \A d \in Documents, x \in Software :
        Comparable(d) /\ x \in Engine(d) /\ used[d][x] # installed[x] =>
            Reparses(d) \/ (Unprobed(result[d], x) /\ Unprobed(stamp, x))

\* Nothing is parsed again for a change off its path: an OCR upgrade touches
\* no document parsed without OCR, an office upgrade none but office documents.
\* A probe that fails costs a needless parse, never a missed one.
NoNeedlessReparse ==
    \A d \in Documents :
        Comparable(d) /\ Reparses(d) =>
            \/ \E x \in Engine(d) : used[d][x] # installed[x]
            \/ \E c \in DOMAIN result[d].components :
                   Differs(d, c) /\ (Unprobed(result[d], c) \/ Unprobed(stamp, c))
=============================================================================
