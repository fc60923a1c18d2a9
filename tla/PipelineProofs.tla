---------------------------- MODULE PipelineProofs ---------------------------
(***************************************************************************)
(* What Pipeline.tla promises for every set of documents and versions and   *)
(* every number of upgrades and failed probes: no change of the software a  *)
(* document went through is missed, but where its probe failed both times,  *)
(* and no document is parsed again for a change off its path.               *)
(***************************************************************************)
EXTENDS Pipeline, FiniteSetTheorems, TLAPS

\* The maps a discovery may have made of software sw, and the stamp of one.
Reported(c, v, sw) ==
    \/ v = Unavailable
    \/ c \in {"pdfium", "tesseract"} /\ v = <<"bundled", sw["liteparse"]>>
    \/ c \notin {"pdfium", "tesseract"} /\ v = sw[c]

Describes(m, sw) == \A c \in Component : Reported(c, m[c], sw)

Stamp(m) == [fingerprint |-> compute_fingerprint(m), components |-> m]

Maps == [Component -> Values]

\* The stamp of a running server is one of the software installed: nothing is
\* replaced under it.
StampInv ==
    \/ stamp = Null
    \/ \E m \in Maps : Describes(m, installed) /\ stamp = Stamp(m)

\* A result's stamp is its part of one of the software it was parsed with, and
\* the software it needed was there.
ResultInv(d) ==
    \/ result[d] = Null
    \/ /\ \A x \in Engine(d) : used[d][x] \in Versions
       /\ \E m \in Maps : Describes(m, used[d]) /\ result[d] = traversed_stamp(Stamp(m), d)

Mapped == DOMAIN result = Documents /\ DOMAIN used = Documents

IInv == TypeOK /\ Mapped /\ StampInv /\ \A d \in Documents : ResultInv(d)

-----------------------------------------------------------------------------
\* Equal fingerprints are of equal maps.
LEMMA FingerprintTells ==
    ASSUME NEW m \in Maps, NEW n \in Maps, compute_fingerprint(m) = compute_fingerprint(n)
    PROVE  m = n
<1>1. ASSUME NEW c \in Component
      PROVE  m[c] = n[c]
  <2>1. <<c, m[c]>> \in compute_fingerprint(n)
    BY DEF compute_fingerprint, Maps
  <2> QED
    BY <2>1 DEF compute_fingerprint, Maps
<1> QED
  BY <1>1 DEF Maps

\* What is traversed has a component, and what really runs is traversed.
LEMMA Traverses ==
    ASSUME NEW d
    PROVE  /\ traversed_components(d) \subseteq Component
           /\ Engine(d) \subseteq traversed_components(d) \cap Software
           /\ Engine(d) \cap {"pdfium", "tesseract"} = {}
           /\ "ghostscript" \notin traversed_components(d)
           /\ "liteparse" \in Engine(d)
           /\ traversed_components(d) \subseteq Engine(d) \cup {"pdfium", "tesseract"}
<1>1. d.format \in {"image", "svg"} <=> IsImage(d)
  BY DEF IsImage
<1> QED
  BY <1>1 DEF traversed_components, Engine, Component, Packages, Software

\* A discovery describes what is installed, whichever of its probes fail.
LEMMA DiscoveredOK ==
    ASSUME TypeOK, NEW broken
    PROVE  Discovered(broken) \in Maps /\ Describes(Discovered(broken), installed)
<1>1. ASSUME NEW x \in Software, NEW probe
      PROVE  /\ Probe(x, probe, broken) \in Versions \cup {Unavailable}
             /\ Probe(x, probe, broken) \in {installed[x], Unavailable}
  BY DEF Probe, TypeOK
<1>2. ASSUME NEW c \in Component
      PROVE  Discovered(broken)[c] \in Values /\ Reported(c, Discovered(broken)[c], installed)
  <2>1. CASE c \in {"pdfium", "tesseract"}
    <3>1. Discovered(broken)[c] = Bundled(Probe("liteparse", "metadata", broken))
      BY <2>1 DEF Discovered, Packages
    <3>2. "liteparse" \in Software
      BY DEF Software, Component
    <3> QED
      BY <1>1, <2>1, <3>1, <3>2 DEF Bundled, Values, Reported
  <2>2. CASE c \notin {"pdfium", "tesseract"}
    <3>1. c \in Software
      BY <2>2 DEF Software
    <3>2. \E probe \in Probes \cup {"metadata"} : Discovered(broken)[c] = Probe(c, probe, broken)
      BY <2>2 DEF Discovered, Component, Packages, Imagemagick, Probes
    <3> QED
      BY <1>1, <2>2, <3>1, <3>2 DEF Values, Reported
  <2> QED
    BY <2>1, <2>2
<1> QED
  BY <1>2 DEF Maps, Describes, Discovered

LEMMA ProbesCounted ==
    ASSUME NEW broken \in SUBSET Probes
    PROVE  Cardinality(broken) \in Nat
<1>1. IsFiniteSet({"tessdata", "convert", "magick", "soffice", "gs", "rsvg-convert"})
  <2>1. IsFiniteSet({"tessdata"})
    BY FS_Singleton
  <2>2. \A S, x : IsFiniteSet(S) => IsFiniteSet(S \cup {x})
    BY FS_AddElement
  <2>3. IsFiniteSet({"tessdata"} \cup {"convert"} \cup {"magick"} \cup {"soffice"} \cup {"gs"}
                       \cup {"rsvg-convert"})
    BY <2>1, <2>2
  <2>4. {"tessdata", "convert", "magick", "soffice", "gs", "rsvg-convert"} =
            {"tessdata"} \cup {"convert"} \cup {"magick"} \cup {"soffice"} \cup {"gs"}
                \cup {"rsvg-convert"}
    OBVIOUS
  <2> QED
    BY <2>3, <2>4
<1> QED
  BY <1>1, FS_Subset, FS_CardinalityType DEF Probes

-----------------------------------------------------------------------------
\* A result keeps its part of a stamp, each component of it.
LEMMA PartOf ==
    ASSUME NEW m \in Maps, NEW d
    PROVE  /\ traversed_stamp(Stamp(m), d).fingerprint = compute_fingerprint(m)
           /\ traversed_stamp(Stamp(m), d).components =
                 [c \in traversed_components(d) |-> m[c]]
<1>1. traversed_components(d) \cap DOMAIN m = traversed_components(d)
  BY Traverses DEF Maps
<1> QED
  BY <1>1 DEF traversed_stamp, Stamp

LEMMA BootOK ==
    ASSUME IInv, NEW broken \in SUBSET Probes, Boot(broken)
    PROVE  IInv'
<1>1. Discovered(broken) \in Maps /\ Describes(Discovered(broken), installed)
  BY DiscoveredOK DEF IInv
<1>2. stamp' = Stamp(Discovered(broken)) /\ UNCHANGED <<installed, result, used, upgrades>>
  BY DEF Boot, Stamp
<1>3. failures' \in 0 .. MaxFailures
  BY ProbesCounted, ConstantsAssumption DEF Boot, IInv, TypeOK
<1>4. stamp'.components \in Maps
  BY <1>1, <1>2 DEF Stamp
<1>5. TypeOK' /\ Mapped'
  BY <1>2, <1>3, <1>4 DEF IInv, TypeOK, Mapped, Maps
<1>6. StampInv'
  BY <1>1, <1>2 DEF StampInv
<1>7. \A d \in Documents : ResultInv(d)'
  BY <1>2 DEF IInv, ResultInv
<1> QED
  BY <1>5, <1>6, <1>7 DEF IInv

LEMMA ParseOK ==
    ASSUME IInv, NEW d \in Documents, Parse(d)
    PROVE  IInv'
<1>1. PICK m \in Maps : Describes(m, installed) /\ stamp = Stamp(m)
  BY DEF Parse, IInv, StampInv
<1>2. /\ UNCHANGED <<installed, stamp, upgrades, failures>>
      /\ \A e \in Documents : /\ result'[e] = IF e = d THEN traversed_stamp(stamp, d) ELSE result[e]
                              /\ used'[e] = IF e = d THEN installed ELSE used[e]
  BY DEF Parse, IInv, Mapped
<1>3. Mapped' /\ StampInv'
  BY <1>2 DEF IInv, StampInv, Mapped, Parse
<1>4. TypeOK'
  <2>1. traversed_stamp(stamp, d).components \in [traversed_components(d) -> Values]
    <3>1. \A c \in traversed_components(d) : m[c] \in Values
      BY Traverses DEF Maps
    <3>2. traversed_stamp(stamp, d).components = [c \in traversed_components(d) |-> m[c]]
      BY <1>1, PartOf
    <3> QED
      BY <3>1, <3>2
  <2> QED
    BY <1>2, <2>1 DEF IInv, TypeOK
<1>5. ResultInv(d)'
  BY <1>1, <1>2, Traverses DEF ResultInv, IInv, TypeOK, Parse
<1>6. \A e \in Documents \ {d} : ResultInv(e)'
  BY <1>2 DEF IInv, ResultInv
<1> QED
  BY <1>3, <1>4, <1>5, <1>6 DEF IInv

\* One step per action; only Boot and Parse make stamps.
THEOREM Inductive == Spec => []IInv
<1>1. Init => IInv
  BY ConstantsAssumption DEF Init, IInv, TypeOK, Mapped, StampInv, ResultInv
<1>2. IInv /\ [Next]_vars => IInv'
  <2> SUFFICES ASSUME IInv, [Next]_vars
               PROVE  IInv'
    OBVIOUS
  <2>1. CASE Stop
    BY <2>1 DEF Stop, IInv, TypeOK, Mapped, StampInv, ResultInv
  <2>2. ASSUME NEW x \in Software, NEW v \in Versions \cup {Missing}, Install(x, v)
        PROVE  IInv'
    <3>1. UNCHANGED <<stamp, result, used, failures>> /\ stamp = Null
      BY <2>2 DEF Install
    <3>2. installed' \in [Software -> Versions \cup {Missing}] /\ upgrades' \in 0 .. MaxUpgrades
      BY <2>2, ConstantsAssumption DEF Install, IInv, TypeOK
    <3> QED
      BY <3>1, <3>2 DEF IInv, TypeOK, Mapped, StampInv, ResultInv
  <2>3. CASE UNCHANGED vars
    BY <2>3 DEF vars, IInv, TypeOK, Mapped, StampInv, ResultInv
  <2> QED
    BY <2>1, <2>2, <2>3, BootOK, ParseOK DEF Next
<1> QED
  BY <1>1, <1>2, PTL DEF Spec

\* Stamps and results have the components they are documented with, each a
\* version, a bundled version or the mark of a failed probe.
THEOREM TypeCorrect == Spec => []TypeOK
  BY Inductive, PTL DEF IInv

-----------------------------------------------------------------------------
\* What the caller compares: a result of map m of what was used, a stamp of map
\* n of what is installed, component by component.
Compares(d, m, n) ==
    /\ Describes(m, used[d]) /\ Describes(n, installed)
    /\ \A x \in Engine(d) : used[d][x] \in Versions
    /\ SameFingerprint(d) <=> m = n
    /\ DOMAIN result[d].components = traversed_components(d)
    /\ traversed_components(d) \subseteq DOMAIN stamp.components
    /\ \A c \in traversed_components(d) :
          /\ result[d].components[c] = m[c] /\ stamp.components[c] = n[c]
          /\ Differs(d, c) <=> m[c] # n[c]

LEMMA Compared ==
    ASSUME IInv, NEW d \in Documents, Comparable(d)
    PROVE  \E m, n \in Maps : Compares(d, m, n)
<1>1. PICK m \in Maps : Describes(m, used[d]) /\ result[d] = traversed_stamp(Stamp(m), d)
  BY DEF Comparable, IInv, ResultInv
<1>2. PICK n \in Maps : Describes(n, installed) /\ stamp = Stamp(n)
  BY DEF Comparable, IInv, StampInv
<1>3. result[d].fingerprint = compute_fingerprint(m) /\ stamp.fingerprint = compute_fingerprint(n)
  BY <1>1, <1>2, PartOf DEF Stamp
<1>4. result[d].components = [c \in traversed_components(d) |-> m[c]] /\ stamp.components = n
  BY <1>1, <1>2, PartOf DEF Stamp
<1>5. SameFingerprint(d) <=> m = n
  BY <1>3, FingerprintTells DEF SameFingerprint
<1>6. \A c \in traversed_components(d) : Differs(d, c) <=> m[c] # n[c]
  BY <1>4, Traverses DEF Differs, Maps
<1>7. \A x \in Engine(d) : used[d][x] \in Versions
  BY DEF Comparable, IInv, ResultInv
<1>8. traversed_components(d) \subseteq DOMAIN stamp.components
  BY <1>4, Traverses DEF Maps
<1> QED
  BY <1>1, <1>2, <1>4, <1>5, <1>6, <1>7, <1>8 DEF Compares

\* A caller that compares the stamp of its result with that of the server
\* learns of every change of what the document was parsed with, whichever of its
\* components changed, unless that one could not be probed then nor now.
THEOREM NothingMissed == Spec => []NoMissedReparse
<1>1. IInv => NoMissedReparse
  <2> SUFFICES ASSUME IInv, NEW d \in Documents, Comparable(d), NEW x \in Engine(d),
                      used[d][x] # installed[x]
               PROVE  Reparses(d) \/ (Unprobed(result[d], x) /\ Unprobed(stamp, x))
    BY DEF NoMissedReparse
  <2>1. PICK m, n \in Maps : Compares(d, m, n)
    BY Compared
  <2>2. x \in traversed_components(d) /\ x \in Component /\ x \notin {"pdfium", "tesseract"}
    BY Traverses
  <2>3. m[x] \in {Unavailable, used[d][x]} /\ n[x] \in {Unavailable, installed[x]}
    BY <2>1, <2>2 DEF Compares, Describes, Reported
  <2>4. used[d][x] # Unavailable
    BY <2>1, ConstantsAssumption DEF Compares
  <2>5. CASE m[x] = Unavailable /\ n[x] = Unavailable
    BY <2>1, <2>2, <2>5 DEF Compares, Unprobed
  <2>6. CASE m[x] # n[x]
    BY <2>1, <2>2, <2>6 DEF Compares, Reparses
  <2> QED
    BY <2>3, <2>4, <2>5, <2>6
<1> QED
  BY <1>1, Inductive, PTL

\* A caller is told to parse a document again only for a change of something its
\* parse ran, or for a probe that failed, then or now.
THEOREM NothingNeedless == Spec => []NoNeedlessReparse
<1>1. IInv => NoNeedlessReparse
  <2> SUFFICES ASSUME IInv, NEW d \in Documents, Comparable(d), Reparses(d),
                      \A x \in Engine(d) : used[d][x] = installed[x]
               PROVE  \E c \in DOMAIN result[d].components :
                          Differs(d, c) /\ (Unprobed(result[d], c) \/ Unprobed(stamp, c))
    BY DEF NoNeedlessReparse
  <2>1. PICK m, n \in Maps : Compares(d, m, n)
    BY Compared
  <2>2. PICK c \in traversed_components(d) : m[c] # n[c]
    BY <2>1 DEF Compares, Reparses
  <2>3. used[d]["liteparse"] = installed["liteparse"]
    BY Traverses
  <2>4. c \in Component /\ (c \notin {"pdfium", "tesseract"} => used[d][c] = installed[c])
    BY Traverses
  <2>5. m[c] = Unavailable \/ n[c] = Unavailable
    BY <2>1, <2>2, <2>3, <2>4 DEF Compares, Describes, Reported
  <2> QED
    BY <2>1, <2>2, <2>5 DEF Compares, Unprobed
<1> QED
  BY <1>1, Inductive, PTL
=============================================================================
