-------------------------- MODULE ImageScansProofs --------------------------
(***************************************************************************)
(* Proofs about ReportPipeline and MetricsCollector as ImageScans composes *)
(* them, for every set of images and of workers and every number of        *)
(* failures and changes; and about the numbers ScanStatistics computes     *)
(* from the reports, whatever they list and in whatever order they are met.*)
(***************************************************************************)
EXTENDS ImageScans, SequenceTheorems, FiniteSetTheorems, WellFoundedInduction, TLAPS

Covered(i) ==
    \/ i \in left
    \/ \E w \in Workers: job[w] = i
    \/ m[i] # "none"

(* A worker has a job exactly while it works on one. *)
JobsHeld ==
    \A w \in Workers:
        IF worker[w] \in {"get", "deliver"} THEN job[w] \in asked ELSE job[w] = None

(* The goroutines stop before the channel closes, which the caller awaits. *)
StopInOrder ==
    /\ ~ Busy => closed
    /\ closed => generator = "stopped" /\ \A w \in Workers: worker[w] = "stopped"

(* Until there is an error no image is lost between the goroutines. *)
NothingLost ==
    /\ ~ err => \A i \in asked: Covered(i)
    /\ ~ err /\ generator = "stopped" => left = {}
    /\ caller = "ok" => ~ err

PipeInv == PipeTypeOK /\ JobsHeld /\ StopInOrder /\ NothingLost

(* How far the new store is filled in each phase of the loop. *)
Filled ==
    /\ phase \in {"start", "ancestors", "scanner", "reports", "policy", "publish", "sleep"}
    /\ seen \subseteq Flags
    /\ installed \subseteq Flags
    /\ phase = "ancestors" => families = <<>>
    /\ phase \in {"scanner", "reports"} => "scanner" \in seen /\ families = AncestorFamily
    /\ phase = "policy" =>
          "opa" \in seen /\ families = Generators(seen \ {"opa"})
    /\ phase = "publish" => families = Generators(seen)

CollInv == Filled /\ HeadersMatch
-----------------------------------------------------------------------------
(* The pipeline *)

LEMMA PipeInitInv ==
    PipeInit /\ reports \in [Images -> {"none", "current"}] => PipeInv
<1> SUFFICES ASSUME PipeInit, reports \in [Images -> {"none", "current"}] PROVE PipeInv
  OBVIOUS
<1>1. reports \in [Images -> {"none", "current", "outdated"}]
  OBVIOUS
<1>2. failures \in 0 .. MaxFailures
  BY FailuresAssumption DEF PipeInit
<1>3. PipeTypeOK
  BY <1>1, <1>2 DEF PipeInit, PipeTypeOK
<1>4. JobsHeld /\ StopInOrder /\ NothingLost
  BY DEF PipeInit, JobsHeld, StopInOrder, NothingLost, Busy
<1> QED
  BY <1>3, <1>4 DEF PipeInv

(* What leaves goroutines and caller alone keeps their invariant. *)
LEMMA ApiOnly ==
    ASSUME PipeInv, UNCHANGED <<poolVars, callVars>>,
           reports' \in [Images -> {"none", "current", "outdated"}],
           requested' \subseteq Images, failures' \in 0 .. MaxFailures
    PROVE  PipeInv'
BY DEF PipeInv, PipeTypeOK, JobsHeld, StopInOrder, NothingLost, Covered, Busy,
       poolVars, callVars

LEMMA CollectStarts ==
    ASSUME NEW S \in SUBSET Images, PipeInv, Collect(S) PROVE PipeInv'
BY DEF Collect, PipeInv, PipeTypeOK, JobsHeld, StopInOrder, NothingLost, Covered, Busy, apiVars

LEMMA GeneratorInv ==
    ASSUME PipeInv, GeneratorDone \/ GeneratorCancelled \/ Close \/ Return \/ DropRequest
    PROVE  PipeInv'
<1> USE DEF PipeInv, PipeTypeOK, JobsHeld, StopInOrder, NothingLost, Covered, Busy,
            apiVars, poolVars, callVars
<1>1. CASE GeneratorDone
  BY <1>1 DEF GeneratorDone
<1>2. CASE GeneratorCancelled
  BY <1>2 DEF GeneratorCancelled
<1>3. CASE Close
  BY <1>3 DEF Close
<1>4. CASE Return
  BY <1>4 DEF Return
<1>5. CASE DropRequest
  BY <1>5 DEF DropRequest
<1> QED
  BY <1>1, <1>2, <1>3, <1>4, <1>5

LEMMA WorkerInv ==
    ASSUME NEW w \in Workers, PipeInv, WorkerStep(w) PROVE PipeInv'
<1> USE NoneAssumption, FailuresAssumption
    DEF PipeInv, PipeTypeOK, JobsHeld, StopInOrder, NothingLost, Busy,
        apiVars, poolVars, callVars
<1>1. CASE Request(w)
  <2> PICK i \in left: left' = left \ {i} /\ job' = [job EXCEPT ![w] = i]
    BY <1>1 DEF Request
  <2>1. PipeTypeOK' /\ JobsHeld' /\ StopInOrder'
    BY <1>1 DEF Request
  <2>2. NothingLost'
    BY <1>1 DEF Request, Covered
  <2> QED
    BY <2>1, <2>2
<1>2. CASE WorkerDone(w)
  BY <1>2 DEF WorkerDone, Covered
<1>3. CASE GetFound(w)
  BY <1>3 DEF GetFound, Covered
<1>4. CASE GetMissing(w)
  <2>1. job[w] \in Images
    BY <1>4 DEF GetMissing
  <2>2. requested' \subseteq Images /\ failures' \in 0 .. MaxFailures
    BY <1>4, <2>1 DEF GetMissing, SendScanRequest, Fault
  <2> QED
    BY <1>4, <2>2 DEF GetMissing, Covered
<1>5. CASE GetFailed(w)
  <2>1. failures' \in 0 .. MaxFailures
    BY <1>5 DEF GetFailed, Fault
  <2> QED
    BY <1>5, <2>1 DEF GetFailed
<1>6. CASE Deliver(w)
  <2>1. job[w] \in Images
    BY <1>6 DEF Deliver
  <2>2. PipeTypeOK' /\ JobsHeld' /\ StopInOrder'
    BY <1>6, <2>1 DEF Deliver
  <2>3. \A i \in asked: Covered(i) => Covered(i)'
    BY <1>6, <2>1 DEF Deliver, Covered
  <2> QED
    BY <1>6, <2>2, <2>3 DEF Deliver
<1>7. CASE DeliverCancelled(w)
  BY <1>7 DEF DeliverCancelled
<1> QED
  BY <1>1, <1>2, <1>3, <1>4, <1>5, <1>6, <1>7 DEF WorkerStep, Get

LEMMA PipeStepInv == PipeInv /\ PipeStep => PipeInv'
BY GeneratorInv, WorkerInv DEF PipeStep
-----------------------------------------------------------------------------
(* The families *)

FamilyNames ==
    {AncestorFamily[k]: k \in 1 .. 1} \cup {ScannerFamilies[k]: k \in 1 .. 9}
        \cup {PolicyFamilies[k]: k \in 1 .. 4}

LEMMA FamilySequences ==
    /\ AncestorFamily \in Seq(FamilyNames) /\ Len(AncestorFamily) = 1
    /\ ScannerFamilies \in Seq(FamilyNames) /\ Len(ScannerFamilies) = 9
    /\ PolicyFamilies \in Seq(FamilyNames) /\ Len(PolicyFamilies) = 4
<1>1. /\ \A k \in 1 .. 1: AncestorFamily[k] \in FamilyNames
      /\ \A k \in 1 .. 9: ScannerFamilies[k] \in FamilyNames
      /\ \A k \in 1 .. 4: PolicyFamilies[k] \in FamilyNames
  BY DEF FamilyNames
<1>2. AncestorFamily \in Seq(FamilyNames) /\ Len(AncestorFamily) = 1
  BY <1>1 DEF AncestorFamily
<1>3. ScannerFamilies \in Seq(FamilyNames) /\ Len(ScannerFamilies) = 9
  BY <1>1 DEF ScannerFamilies
<1>4. PolicyFamilies \in Seq(FamilyNames) /\ Len(PolicyFamilies) = 4
  BY <1>1 DEF PolicyFamilies
<1> QED
  BY <1>2, <1>3, <1>4

LEMMA FamiliesNotEmpty ==
    AncestorFamily # <<>> /\ ScannerFamilies # <<>> /\ PolicyFamilies # <<>>
<1>1. AncestorFamily # <<>>
  BY DEF AncestorFamily
<1>2. ScannerFamilies # <<>>
  BY DEF ScannerFamilies
<1>3. PolicyFamilies # <<>>
  BY DEF PolicyFamilies
<1> QED
  BY <1>1, <1>2, <1>3

(* The two parts of a concatenation, by position. *)
LEMMA FirstPart ==
    ASSUME NEW S, NEW s \in Seq(S), NEW t \in Seq(S), s # <<>>
    PROVE  SubSeq(s \o t, 1, Len(s)) = s
<1>1. Len(s) \in Nat \ {0}
  BY EmptySeq, LenProperties
<1>2. 1 \in 1 .. Len(s) /\ Len(s) \in 1 .. Len(s)
  BY <1>1
<1> QED
  BY <1>2, SubSeqOfConcat1, SubSeqFull

LEMMA LastPart ==
    ASSUME NEW S, NEW s \in Seq(S), NEW t \in Seq(S), t # <<>>
    PROVE  SubSeq(s \o t, Len(s) + 1, Len(s) + Len(t)) = t
<1>1. Len(s) \in Nat /\ Len(t) \in Nat \ {0}
  BY EmptySeq, LenProperties
<1>2. /\ Len(s) + 1 \in Len(s) + 1 .. Len(s) + Len(t)
      /\ Len(s) + Len(t) \in Len(s) + 1 .. Len(s) + Len(t)
      /\ Len(s) + 1 - Len(s) = 1
      /\ Len(s) + Len(t) - Len(s) = Len(t)
  BY <1>1
<1>3. SubSeq(s \o t, Len(s) + 1, Len(s) + Len(t))
        = SubSeq(t, Len(s) + 1 - Len(s), Len(s) + Len(t) - Len(s))
  BY <1>2, SubSeqOfConcat2
<1> QED
  BY <1>2, <1>3, SubSeqFull

LEMMA MiddlePart ==
    ASSUME NEW S, NEW s \in Seq(S), NEW t \in Seq(S), NEW u \in Seq(S), t # <<>>
    PROVE  SubSeq((s \o t) \o u, Len(s) + 1, Len(s) + Len(t)) = t
<1>1. Len(s) \in Nat /\ Len(t) \in Nat \ {0}
  BY EmptySeq, LenProperties
<1>2. s \o t \in Seq(S) /\ Len(s \o t) = Len(s) + Len(t)
  BY ConcatProperties
<1>3. Len(s) + 1 \in 1 .. Len(s \o t) /\ Len(s) + Len(t) \in 1 .. Len(s \o t)
  BY <1>1, <1>2
<1>4. SubSeq((s \o t) \o u, Len(s) + 1, Len(s) + Len(t))
        = SubSeq(s \o t, Len(s) + 1, Len(s) + Len(t))
  BY <1>2, <1>3, SubSeqOfConcat1
<1> QED
  BY <1>4, LastPart

(* What each collection takes from the generators is what it collects. *)
LEMMA AncestorsTaken == From(0, 1) = AncestorFamily
<1> DEFINE b == IF "scanner" \in seen THEN ScannerFamilies ELSE <<>>
           c == IF "opa" \in seen THEN PolicyFamilies ELSE <<>>
<1>1. b \in Seq(FamilyNames) /\ c \in Seq(FamilyNames)
  BY FamilySequences, EmptySeq
<1> HIDE DEF b, c
<1>2. Generators(seen) = (AncestorFamily \o b) \o c
  BY DEF Generators, b, c
<1>3. (AncestorFamily \o b) \o c = AncestorFamily \o (b \o c)
  <2>1. AncestorFamily \in Seq(FamilyNames)
    BY FamilySequences
  <2> QED
    BY <1>1, <2>1, ConcatAssociative
<1>4. b \o c \in Seq(FamilyNames) /\ AncestorFamily # <<>>
  BY <1>1, FamilySequences, FamiliesNotEmpty, ConcatProperties
<1>5. SubSeq(AncestorFamily \o (b \o c), 1, 1) = AncestorFamily
  BY <1>4, FamilySequences, FirstPart
<1>6. From(0, 1) = SubSeq(Generators(seen), 0 + 1, 0 + 1) /\ 0 + 1 = 1
  BY DEF From
<1> QED
  BY <1>2, <1>3, <1>5, <1>6

LEMMA ScannerTaken ==
    ASSUME "scanner" \in seen
    PROVE  From(1, Len(ScannerFamilies)) = ScannerFamilies
<1> DEFINE c == IF "opa" \in seen THEN PolicyFamilies ELSE <<>>
<1>1. c \in Seq(FamilyNames)
  BY FamilySequences, EmptySeq
<1> HIDE DEF c
<1>2. Generators(seen) = (AncestorFamily \o ScannerFamilies) \o c
  BY DEF Generators, c
<1>3. ScannerFamilies # <<>>
  BY FamilySequences, FamiliesNotEmpty
<1>4. SubSeq((AncestorFamily \o ScannerFamilies) \o c, 1 + 1, 1 + Len(ScannerFamilies))
        = ScannerFamilies
  <2>1. SubSeq((AncestorFamily \o ScannerFamilies) \o c, Len(AncestorFamily) + 1,
               Len(AncestorFamily) + Len(ScannerFamilies)) = ScannerFamilies
    BY <1>1, <1>3, FamilySequences, MiddlePart, Zenon
  <2> QED
    BY <2>1, FamilySequences, Zenon
<1> QED
  BY <1>2, <1>4 DEF From

LEMMA PolicyTaken ==
    ASSUME "opa" \in seen
    PROVE  Generators(seen \ {"opa"}) \o From(PolicyOffset, 2) \o From(PolicyOffset + 2, 2)
             = Generators(seen)
<1> DEFINE b == IF "scanner" \in seen THEN ScannerFamilies ELSE <<>>
           p == AncestorFamily \o b
           g == p \o PolicyFamilies
           n == PolicyOffset
<1>1. b \in Seq(FamilyNames) /\ Len(b) \in Nat /\ n = 1 + Len(b)
  <2>1. CASE "scanner" \in seen
    <3>1. b = ScannerFamilies /\ n = 1 + Len(ScannerFamilies)
      BY <2>1 DEF PolicyOffset
    <3>2. Len(ScannerFamilies) \in Nat
      BY FamilySequences
    <3> QED
      BY <3>1, <3>2, FamilySequences, Zenon
  <2>2. CASE "scanner" \notin seen
    <3>1. b = <<>> /\ n = 1 + 0
      BY <2>2 DEF PolicyOffset
    <3> QED
      BY <3>1, EmptySeq, 0 \in Nat, Zenon
  <2> QED
    BY <2>1, <2>2
<1>2. p \in Seq(FamilyNames) /\ Len(p) = n /\ n \in Nat
  <2>1. p \in Seq(FamilyNames) /\ Len(p) = Len(AncestorFamily) + Len(b)
    BY <1>1, FamilySequences, ConcatProperties, Zenon
  <2> HIDE DEF b, n
  <2>2. n \in Nat
    BY <1>1
  <2> QED
    BY <1>1, <2>1, <2>2, FamilySequences, Zenon
<1>3. g \in Seq(FamilyNames) /\ Len(g) = n + 4
  <2>1. g \in Seq(FamilyNames) /\ Len(g) = Len(p) + Len(PolicyFamilies)
    BY <1>2, FamilySequences, ConcatProperties, Zenon
  <2> QED
    BY <1>2, <2>1, FamilySequences, Zenon
<1>4. Generators(seen) = g
  BY DEF Generators
<1>5. Generators(seen \ {"opa"}) = p
  <2>1. Generators(seen \ {"opa"}) = p \o <<>>
    BY DEF Generators
  <2> QED
    BY <1>2, <2>1, ConcatEmptySeq
<1> HIDE DEF b, p, g, n
<1>6. SubSeq(g, n + 1, n + 4) = PolicyFamilies
  <2>1. PolicyFamilies # <<>>
    BY FamilySequences, FamiliesNotEmpty
  <2> QED
    BY <1>2, <2>1, FamilySequences, LastPart DEF g
<1>7. SubSeq(g, n + 1, n + 2) \o SubSeq(g, (n + 2) + 1, n + 4) = SubSeq(g, n + 1, n + 4)
  <2>1. /\ n + 1 \in 1 .. Len(g) + 1
        /\ n + 2 \in (n + 1) - 1 .. Len(g)
        /\ n + 4 \in n + 2 .. Len(g)
    BY <1>2, <1>3
  <2> QED
    BY <1>3, <2>1, ConcatAdjacentSubSeq
<1>8. From(n, 2) = SubSeq(g, n + 1, n + 2) /\ From(n + 2, 2) = SubSeq(g, (n + 2) + 1, n + 4)
  <2>1. (n + 2) + 2 = n + 4
    BY <1>2
  <2> QED
    BY <1>4, <2>1 DEF From
<1>9. From(n, 2) \in Seq(FamilyNames) /\ From(n + 2, 2) \in Seq(FamilyNames)
  <2>2. \A i \in n + 1 .. n + 2: i \in 1 .. Len(g)
    BY <1>2, <1>3
  <2>3. \A i \in (n + 2) + 1 .. n + 4: i \in 1 .. Len(g)
    BY <1>2, <1>3
  <2>4. n + 1 \in Int /\ n + 2 \in Int /\ (n + 2) + 1 \in Int /\ n + 4 \in Int
    BY <1>2
  <2>5. \A i \in 1 .. Len(g): g[i] \in FamilyNames
    BY <1>3, ElementOfSeq
  <2>6. SubSeq(g, n + 1, n + 2) \in Seq(FamilyNames)
    BY <2>2, <2>4, <2>5, SubSeqProperties, Zenon
  <2>7. SubSeq(g, (n + 2) + 1, n + 4) \in Seq(FamilyNames)
    BY <2>3, <2>4, <2>5, SubSeqProperties, Zenon
  <2> QED
    BY <1>8, <2>6, <2>7
<1>10. (p \o From(n, 2)) \o From(n + 2, 2) = p \o (From(n, 2) \o From(n + 2, 2))
  BY <1>2, <1>9, ConcatAssociative
<1> QED
  BY <1>4, <1>5, <1>6, <1>7, <1>8, <1>10 DEF g, n
LEMMA CollectorInv ==
    ASSUME CollInv, CollectorStep PROVE CollInv'
<1> USE DEF CollInv, Filled, HeadersMatch
<1>1. CASE BeginCollection
  BY <1>1 DEF BeginCollection
<1>2. CASE CollectionFails
  BY <1>2 DEF CollectionFails, Discard
<1>3. CASE CollectAncestors
  <2>1. families' = <<>> \o AncestorFamily
    BY <1>3, AncestorsTaken DEF CollectAncestors
  <2>2. <<>> \o AncestorFamily = AncestorFamily
    BY FamilySequences, ConcatEmptySeq, Zenon
  <2>3. seen \subseteq Flags /\ "scanner" \notin seen =>
          IF "opa" \in seen THEN AncestorFamily = Generators(seen \ {"opa"})
                           ELSE AncestorFamily = Generators(seen)
    <3>1. AncestorFamily \o <<>> = AncestorFamily
      BY FamilySequences, ConcatEmptySeq, Zenon
    <3> QED
      BY <3>1 DEF Generators
  <2> QED
    BY <1>3, <2>1, <2>2, <2>3 DEF CollectAncestors, AfterAncestors
<1>4. CASE CollectScanner
  BY <1>4 DEF CollectScanner
<1>5. CASE AddScanner
  <2>1. families' = AncestorFamily \o ScannerFamilies
    BY <1>5, ScannerTaken DEF AddScanner
  <2>2. "scanner" \in seen
    BY <1>5 DEF AddScanner
  <2>3. IF "opa" \in seen THEN families' = Generators(seen \ {"opa"})
                         ELSE families' = Generators(seen)
    <3>1. AncestorFamily \o ScannerFamilies \in Seq(FamilyNames)
      BY FamilySequences, ConcatProperties, Zenon
    <3>2. (AncestorFamily \o ScannerFamilies) \o <<>> = AncestorFamily \o ScannerFamilies
      BY <3>1, ConcatEmptySeq, Zenon
    <3> QED
      BY <2>1, <2>2, <3>2 DEF Generators
  <2> QED
    BY <1>5, <2>3 DEF AddScanner, AfterReports
<1>6. CASE ReportsFailed
  BY <1>6 DEF ReportsFailed, Discard
<1>7. CASE CollectPolicy
  <2>1. families' = Generators(seen)
    BY <1>7, PolicyTaken DEF CollectPolicy
  <2> QED
    BY <1>7, <2>1 DEF CollectPolicy
<1>8. CASE Publish
  BY <1>8 DEF Publish
<1>9. CASE Wake
  BY <1>9 DEF Wake
<1> QED
  BY <1>1, <1>2, <1>3, <1>4, <1>5, <1>6, <1>7, <1>8, <1>9 DEF CollectorStep

-----------------------------------------------------------------------------
(* The composition *)

ScanInv == PipeInv /\ CollInv /\ refs \subseteq Images

LEMMA ScanInit == Init => ScanInv
<1> SUFFICES ASSUME Init PROVE ScanInv
  OBVIOUS
<1>1. PipeInv
  BY PipeInitInv DEF Init
<1>2. CollInv
  BY DEF Init, CollInit, CollInv, Filled, HeadersMatch, NoStore
<1> QED
  BY <1>1, <1>2 DEF ScanInv, Init

LEMMA EnvironmentInv == ScanInv /\ Environment => ScanInv'
<1> SUFFICES ASSUME ScanInv, Environment PROVE ScanInv'
  OBVIOUS
<1> USE DEF ScanInv
<1>1. ASSUME NEW i \in Images, Scan(i) \/ ReportAges(i) PROVE ScanInv'
  <2>1. /\ reports' \in [Images -> {"none", "current", "outdated"}]
        /\ requested' \subseteq Images
        /\ failures' \in 0 .. MaxFailures
    BY <1>1 DEF PipeInv, PipeTypeOK, Scan, ReportAges
  <2>2. PipeInv'
    BY <1>1, <2>1, ApiOnly DEF Scan, ReportAges
  <2> QED
    BY <1>1, <2>2 DEF Scan, ReportAges, CollInv, Filled, HeadersMatch, collVars, wlVars
<1>2. ASSUME NEW f \in Flags, FlagTurns(f) PROVE ScanInv'
  <2>1. PipeInv'
    BY <1>2, ApiOnly DEF FlagTurns, pipeVars, apiVars, PipeInv, PipeTypeOK
  <2> QED
    BY <1>2, <2>1 DEF FlagTurns, CollInv, Filled, HeadersMatch, collVars, wlVars
<1>3. CASE PodsChange \/ Resync
  <2>1. PipeInv'
    BY <1>3, ApiOnly DEF PodsChange, Resync, pipeVars, apiVars, PipeInv, PipeTypeOK
  <2> QED
    BY <1>3, <2>1 DEF PodsChange, Resync, CollInv, Filled, HeadersMatch, collVars
<1> QED
  BY <1>1, <1>2, <1>3 DEF Environment

LEMMA ClientsInv == ScanInv /\ (Pipeline \/ Storage \/ Scrape) => ScanInv'
<1> SUFFICES ASSUME ScanInv, Pipeline \/ Storage \/ Scrape PROVE ScanInv'
  OBVIOUS
<1> USE DEF ScanInv
<1>1. CASE Pipeline
  <2>1. PipeInv'
    BY <1>1, PipeStepInv DEF Pipeline
  <2> QED
    BY <1>1, <2>1 DEF Pipeline, CollInv, Filled, HeadersMatch, collVars, wlVars
<1>2. CASE Storage
  <2>1. PipeInv'
    BY <1>2, CollectStarts, GeneratorInv DEF Storage, CreateReport, Disconnect
  <2> QED
    BY <1>2, <2>1 DEF Storage, CreateReport, Disconnect, CollInv, Filled, HeadersMatch,
                      collVars, wlVars
<1>3. CASE Scrape
  <2>1. PipeInv'
    BY <1>3, ApiOnly DEF Scrape, ScrapeBegins, ScrapeEnds, pipeVars, apiVars, PipeInv, PipeTypeOK
  <2> QED
    BY <1>3, <2>1 DEF Scrape, ScrapeBegins, ScrapeEnds, CollInv, Filled, HeadersMatch, wlVars
<1> QED
  BY <1>1, <1>2, <1>3

LEMMA LoopsInv == ScanInv /\ (Collector \/ Workload) => ScanInv'
<1> SUFFICES ASSUME ScanInv, Collector \/ Workload PROVE ScanInv'
  OBVIOUS
<1> USE DEF ScanInv
<1>1. CASE Collector
  <2>1. CollInv' /\ refs' = refs
    BY <1>1, CollectorInv DEF Collector, wlVars
  <2>2. CASE CollectScanner
    BY <2>1, <2>2, CollectStarts DEF CollectScanner
  <2>3. CASE CollectionFails
    <3>1. failures' \in 0 .. MaxFailures
      BY <2>3, FailuresAssumption DEF CollectionFails, PipeInv, PipeTypeOK
    <3> QED
      BY <2>1, <2>3, <3>1, ApiOnly DEF CollectionFails, PipeInv, PipeTypeOK
  <2>4. CASE UNCHANGED pipeVars
    BY <2>1, <2>4, ApiOnly DEF pipeVars, apiVars, PipeInv, PipeTypeOK
  <2> QED
    BY <1>1, <2>2, <2>3, <2>4
    DEF Collector, CollectorStep, BeginCollection, CollectAncestors, AddScanner,
        ReportsFailed, CollectPolicy, Publish, Wake
<1>2. CASE Workload
  <2>1. /\ requested' \subseteq Images
        /\ failures' \in 0 .. MaxFailures
        /\ refs' \subseteq Images
    BY <1>2, FailuresAssumption
    DEF Workload, ReconcileStart, ReconcileRef, ReconcileFails, PipeInv, PipeTypeOK
  <2>2. UNCHANGED <<reports, poolVars, callVars, installed, collVars, store>>
    BY <1>2 DEF Workload, ReconcileStart, ReconcileRef
  <2>3. PipeInv'
    BY <2>1, <2>2, ApiOnly DEF PipeInv, PipeTypeOK
  <2> QED
    BY <2>1, <2>2, <2>3 DEF CollInv, Filled, HeadersMatch, collVars
<1> QED
  BY <1>1, <1>2

LEMMA ScanInvariant == Spec => []ScanInv
<1>1. ScanInv /\ [Next]_vars => ScanInv'
  <2> SUFFICES ASSUME ScanInv, [Next]_vars PROVE ScanInv'
    OBVIOUS
  <2>1. CASE UNCHANGED vars
    <3>1. PipeInv'
      BY <2>1, ApiOnly DEF vars, ScanInv, pipeVars, apiVars, PipeInv, PipeTypeOK
    <3> QED
      BY <2>1, <3>1 DEF vars, ScanInv, CollInv, Filled, HeadersMatch, collVars, wlVars
  <2> QED
    BY <2>1, EnvironmentInv, ClientsInv, LoopsInv DEF Next
<1> QED
  BY <1>1, ScanInit, PTL DEF Spec

(* collectReports keeps its channels, goroutines and results in the states *)
(* its text foresees, however many images and workers there are.           *)
THEOREM PipelineTypes == Spec => []PipeTypeOK
BY ScanInvariant, PTL DEF ScanInv, PipeInv

(* A call of collectReports that returns no error has a result for every   *)
(* image it was asked about.  An image is never lost: the generator still  *)
(* has it, a worker holds it or its result is read, until a goroutine that *)
(* gives one up sets the error of the group; and the caller, who reads the *)
(* error after the range, reads it after every goroutine has stopped.      *)
THEOREM ReportsComplete == Spec => []CompleteOrError
<1>1. ScanInv => CompleteOrError
  BY NoneAssumption DEF ScanInv, PipeInv, PipeTypeOK, JobsHeld, StopInOrder, NothingLost,
                        Covered, Busy, CompleteOrError
<1> QED
  BY <1>1, ScanInvariant, PTL

(* Every store that is published has the families its headers announce, in *)
(* their order, whenever the flags turn: the collection works with the     *)
(* flags it read, and takes the families by offsets computed from them.    *)
THEOREM HeadersAndFamilies == Spec => []HeadersMatch
BY ScanInvariant, PTL DEF ScanInv, CollInv

-----------------------------------------------------------------------------
(* Finite sets, and sums over them *)

(* A nonempty set of finite sets has a member that contains no other.      *)
LEMMA LeastSubset ==
    ASSUME NEW S, IsFiniteSet(S), NEW Bad \in SUBSET (SUBSET S), Bad # {}
    PROVE  \E T \in Bad: \A U \in Bad: U \subseteq T => U = T
<1>1. FiniteSubsetsOf(S) = SUBSET S
  BY FS_FiniteSubsetsOfFinite
<1>2. IsWellFoundedOn(StrictSubsetOrdering(S), SUBSET S)
  BY <1>1, FS_StrictSubsetOrderingWellFounded
<1>3. \E T \in Bad: \A U \in Bad: ~ (<<U, T>> \in StrictSubsetOrdering(S))
  BY <1>2, WFMin
<1> QED
  BY <1>3 DEF StrictSubsetOrdering

(* The counts of the values of a function add up to its arguments.  The    *)
(* fold of MapThenSumSet is the number of arguments with a value in a set. *)
LEMMA SumOfCounts ==
    ASSUME NEW E, IsFiniteSet(E), NEW K, IsFiniteSet(K), NEW f, \A e \in E: f[e] \in K
    PROVE  Total([k \in K |-> Cardinality({e \in E: f[e] = k})]) = Cardinality(E)
<1> DEFINE c == [k \in K |-> Cardinality({e \in E: f[e] = k})]
           Within(s) == {e \in E: f[e] \in s}
           Def(iter) == [s \in SUBSET K |->
                            IF s = {} THEN 0
                            ELSE LET x == CHOOSE x \in s: TRUE IN c[x] + iter[s \ {x}]]
           count == [s \in SUBSET K |-> Cardinality(Within(s))]
           it == CHOOSE iter: iter = Def(iter)
<1>1. Total(c) = it[K]
  <2>1. DOMAIN c = K
    OBVIOUS
  <2> HIDE DEF c
  <2> QED
    BY <2>1, Zenon DEF Total, MapThenSumSet, MapThenFoldSet
<1>2. \A s \in SUBSET K: IsFiniteSet(Within(s)) /\ Cardinality(Within(s)) \in Nat
  BY FS_Subset, FS_CardinalityType
<1>3. ASSUME NEW s \in SUBSET K, NEW x \in s
      PROVE  Cardinality(Within(s)) = c[x] + Cardinality(Within(s \ {x}))
  <2> DEFINE A == {e \in E: f[e] = x}
             B == Within(s \ {x})
  <2>1. Within(s) = A \cup B /\ A \cap B = {} /\ A = Within({x})
    OBVIOUS
  <2>2. IsFiniteSet(A) /\ IsFiniteSet(B) /\ Cardinality(A) \in Nat /\ Cardinality(B) \in Nat
    <3>1. A \in SUBSET E /\ B \in SUBSET E
      OBVIOUS
    <3> HIDE DEF A, B
    <3> QED
      BY <3>1, FS_Subset, FS_CardinalityType
  <2>3. c[x] = Cardinality(A)
    BY <1>3
  <2> HIDE DEF A, B, c, Within
  <2>4. Cardinality(Within(s)) = Cardinality(A) + Cardinality(B) - Cardinality({})
    BY <2>1, <2>2, FS_Union
  <2> QED
    BY <2>2, <2>3, <2>4, FS_EmptySet DEF B
<1>4. Cardinality(Within({})) = 0 /\ Within(K) = E
  <2>1. Within({}) = {} /\ Within(K) = E
    OBVIOUS
  <2> QED
    BY <2>1, FS_EmptySet
<1> HIDE DEF Within, c
<1>5. count = Def(count)
  <2>1. ASSUME NEW s \in SUBSET K PROVE count[s] = Def(count)[s]
    <3>1. CASE s = {}
      BY <1>4, <3>1
    <3>2. CASE s # {}
      <4> DEFINE x == CHOOSE x \in s: TRUE
      <4>1. x \in s /\ s \ {x} \in SUBSET K
        BY <3>2
      <4>2. count[s] = c[x] + count[s \ {x}]
        BY <1>3, <4>1
      <4> QED
        BY <3>2, <4>2
    <3> QED
      BY <3>1, <3>2
  <2> QED
    BY <2>1
<1>6. it = Def(it)
  BY <1>5, Zenon
<1> HIDE DEF it
<1>7. it[{}] = 0 /\ \A s \in SUBSET K: s # {} => \E x \in s: it[s] = c[x] + it[s \ {x}]
  <2>1. it[{}] = 0
    BY <1>6
  <2>2. ASSUME NEW s \in SUBSET K, s # {} PROVE \E x \in s: it[s] = c[x] + it[s \ {x}]
    <3> DEFINE x == CHOOSE x \in s: TRUE
    <3>1. x \in s
      BY <2>2
    <3>2. it[s] = c[x] + it[s \ {x}]
      BY <1>6, <2>2
    <3> QED
      BY <3>1, <3>2
  <2> QED
    BY <2>1, <2>2
<1>8. \A s \in SUBSET K: it[s] = count[s]
  <2> DEFINE Bad == {s \in SUBSET K: it[s] # count[s]}
  <2> SUFFICES ASSUME Bad # {} PROVE FALSE
    OBVIOUS
  <2>1. Bad \in SUBSET (SUBSET K)
    OBVIOUS
  <2>2. PICK s \in Bad: \A u \in Bad: u \subseteq s => u = s
    <3> HIDE DEF Bad
    <3> QED
      BY <2>1, LeastSubset
  <2>3. CASE s = {}
    BY <1>4, <1>7, <2>2, <2>3
  <2>4. CASE s # {}
    <3>1. PICK x \in s: it[s] = c[x] + it[s \ {x}]
      BY <1>7, <2>2, <2>4
    <3>2. s \ {x} \in SUBSET K /\ it[s \ {x}] = count[s \ {x}]
      <4>1. s \ {x} \subseteq s /\ s \ {x} # s /\ s \ {x} \in SUBSET K
        BY <2>2, <3>1
      <4>2. s \ {x} \notin Bad
        BY <2>2, <4>1
      <4> QED
        BY <4>1, <4>2
    <3>3. count[s] = c[x] + count[s \ {x}]
      BY <1>3, <2>2, <3>1, <3>2
    <3> QED
      BY <2>2, <3>1, <3>2, <3>3
  <2> QED
    BY <2>3, <2>4
<1> QED
  BY <1>1, <1>4, <1>8 DEF c

(* A strict total order on a finite set has a first element. *)
LEMMA FirstElement ==
    ASSUME NEW S, IsFiniteSet(S), S # {}, NEW R,
           \A x, y \in S: x # y => <<x, y>> \in R \/ <<y, x>> \in R,
           \A x, y, z \in S: <<x, y>> \in R /\ <<y, z>> \in R => <<x, z>> \in R
    PROVE  \E x \in S: \A y \in S \ {x}: <<x, y>> \in R
<1> DEFINE Bad == {T \in SUBSET S: T # {} /\ ~ \E x \in T: \A y \in T \ {x}: <<x, y>> \in R}
<1> SUFFICES ASSUME Bad # {} PROVE FALSE
  OBVIOUS
<1>1. PICK T \in Bad: \A U \in Bad: U \subseteq T => U = T
  <2>1. Bad \in SUBSET (SUBSET S)
    OBVIOUS
  <2> HIDE DEF Bad
  <2> QED
    BY <2>1, LeastSubset
<1>2. T \subseteq S /\ T # {} /\ ~ \E x \in T: \A y \in T \ {x}: <<x, y>> \in R
  BY <1>1
<1>3. PICK z \in T: TRUE
  BY <1>2
<1>4. T \ {z} \in SUBSET S /\ T \ {z} \notin Bad
  <2>1. T \ {z} \in SUBSET S /\ T \ {z} # T /\ T \ {z} \subseteq T
    BY <1>2, <1>3
  <2> HIDE DEF Bad
  <2> QED
    BY <1>1, <2>1
<1>5. T \ {z} # {}
  BY <1>2, <1>3
<1>6. PICK x \in T \ {z}: \A y \in (T \ {z}) \ {x}: <<x, y>> \in R
  BY <1>4, <1>5
<1>7. CASE <<x, z>> \in R
  BY <1>2, <1>6, <1>7
<1>8. CASE <<z, x>> \in R
  <2>1. \A y \in T \ {z}: <<z, y>> \in R
    BY <1>2, <1>3, <1>6, <1>8
  <2> QED
    BY <1>2, <1>3, <2>1
<1> QED
  BY <1>2, <1>3, <1>6, <1>7, <1>8

-----------------------------------------------------------------------------
(* Iterations *)
LEMMA OrderFacts ==
    ASSUME NEW S, IsFiniteSet(S), NEW order \in Orders(S)
    PROVE  /\ \E n \in Nat: DOMAIN order = 1 .. n
           /\ ToSet(order) = S
           /\ \A k \in DOMAIN order: order[k] \in S
           /\ \A j, k \in DOMAIN order: order[j] = order[k] => j = k
<1> DEFINE n == Cardinality(S)
           D == 1 .. n
<1>1. n \in Nat /\ order \in [D -> S] /\ \A i, j \in D: i # j => order[i] # order[j]
  BY FS_CardinalityType DEF Orders, SetToSeqs
<1>2. IsFiniteSet(D) /\ Cardinality(D) = n
  <2>1. 1 \in Int /\ n \in Int
    BY <1>1
  <2>2. IsFiniteSet(1 .. n) /\ Cardinality(1 .. n) = IF 1 > n THEN 0 ELSE n - 1 + 1
    BY <2>1, FS_Interval, Zenon
  <2> QED
    BY <1>1, <2>2
<1>3. order \in Injection(D, S)
  BY <1>1 DEF Injection, IsInjective
<1> HIDE DEF D
<1>4. order \in Surjection(D, S)
  BY <1>2, <1>3, FS_Injection
<1>5. ToSet(order) = S
  BY <1>4 DEF Surjection, ToSet
<1> QED
  BY <1>1, <1>5 DEF D

(* What the turns of the loops have to do with the reports. *)
Listed(S) == UNION {{<<i, n>>: n \in DOMAIN Vulns[i]}: i \in S}

LEMMA ListedFacts ==
    ASSUME NEW S \in SUBSET Images
    PROVE  /\ IsFiniteSet(Listed(S))
           /\ \A p \in Listed(S): p = <<p[1], p[2]>> /\ p[1] \in S /\ p[2] \in DOMAIN Vulns[p[1]]
<1>1. IsFiniteSet(S)
  BY ImagesAssumption, FS_Subset
<1>2. ASSUME NEW i \in S PROVE IsFiniteSet(DOMAIN Vulns[i])
  <2>1. Len(Vulns[i]) \in Nat /\ DOMAIN Vulns[i] = 1 .. Len(Vulns[i])
    BY ImagesAssumption, VulnsAssumption
  <2>2. 1 \in Int /\ Len(Vulns[i]) \in Int
    BY <2>1
  <2> QED
    BY <2>1, <2>2, FS_Interval, Zenon
<1>3. \A p \in Listed(S): p = <<p[1], p[2]>> /\ p[1] \in S /\ p[2] \in DOMAIN Vulns[p[1]]
  BY DEF Listed
<1>4. IsFiniteSet(Listed(S))
  <2> DEFINE Own(i) == {<<i, n>>: n \in DOMAIN Vulns[i]}
             Parts == {Own(i): i \in S}
  <2>1. IsFiniteSet(Parts)
    <3>1. [i \in S |-> Own(i)] \in Surjection(S, Parts)
      BY DEF Surjection
    <3> HIDE DEF Parts, Own
    <3> QED
      BY <1>1, <3>1, FS_Surjection
  <2>2. ASSUME NEW i \in S PROVE IsFiniteSet(Own(i))
    <3>1. [n \in DOMAIN Vulns[i] |-> <<i, n>>] \in Surjection(DOMAIN Vulns[i], Own(i))
      BY DEF Surjection
    <3> HIDE DEF Own
    <3> QED
      BY <1>2, <3>1, FS_Surjection
  <2>3. \A T \in Parts: IsFiniteSet(T)
    BY <2>2
  <2> HIDE DEF Parts
  <2>4. IsFiniteSet(UNION Parts)
    BY <2>1, <2>3, FS_UNION
  <2> QED
    BY <2>4 DEF Listed, Parts
<1> QED
  BY <1>3, <1>4

(* The loops meet every vulnerability of the images once, at some turn. *)
LEMMA TurnsFacts ==
    ASSUME NEW A \in SUBSET Images, NEW order \in Orders(A), NEW S \in SUBSET A
    PROVE  LET es == Entries(order, S)
           IN  /\ [t \in DOMAIN es |-> <<es[t].image, t[2]>>] \in Bijection(DOMAIN es, Listed(S))
               /\ IsFiniteSet(DOMAIN es)
               /\ DOMAIN es \subseteq Nat \X Nat
               /\ \A t \in DOMAIN es:
                     /\ es[t].image \in S /\ t[2] \in DOMAIN Vulns[es[t].image]
                     /\ es[t].cve = Vulns[es[t].image][t[2]].cve
                     /\ es[t].severity = Vulns[es[t].image][t[2]].severity
                     /\ es[t].severity \in severities
<1> DEFINE es == Entries(order, S)
           p == [t \in DOMAIN es |-> <<es[t].image, t[2]>>]
<1>1. IsFiniteSet(A)
  BY ImagesAssumption, FS_Subset
<1>2. PICK n \in Nat: DOMAIN order = 1 .. n
  BY <1>1, OrderFacts
<1>3. /\ ToSet(order) = A
      /\ \A k \in DOMAIN order: order[k] \in A
      /\ \A j, k \in DOMAIN order: order[j] = order[k] => j = k
  BY <1>1, OrderFacts
<1>4. DOMAIN es = Turns(order, S)
  BY DEF Entries
<1>5. ASSUME NEW t \in DOMAIN es
      PROVE  /\ t = <<t[1], t[2]>> /\ t[1] \in DOMAIN order /\ order[t[1]] \in S
             /\ t[2] \in DOMAIN Vulns[order[t[1]]] /\ t \in Nat \X Nat
  <2>1. PICK k \in DOMAIN order: order[k] \in S /\ \E j \in DOMAIN Vulns[order[k]]: t = <<k, j>>
    BY <1>4 DEF Turns
  <2>2. PICK j \in DOMAIN Vulns[order[k]]: t = <<k, j>>
    BY <2>1
  <2>3. k \in Nat /\ j \in Nat
    BY <1>2, <2>1, ImagesAssumption, VulnsAssumption
  <2> QED
    BY <2>1, <2>2, <2>3
<1>6. \A t \in DOMAIN es:
         es[t] = [image |-> order[t[1]], cve |-> Vulns[order[t[1]]][t[2]].cve,
                  severity |-> Vulns[order[t[1]]][t[2]].severity]
  BY <1>4 DEF Entries
<1> HIDE DEF es
<1>7. ASSUME NEW t \in DOMAIN es
      PROVE  /\ es[t].image = order[t[1]]
             /\ es[t].image \in S /\ t[2] \in DOMAIN Vulns[es[t].image]
             /\ es[t].cve = Vulns[es[t].image][t[2]].cve
             /\ es[t].severity = Vulns[es[t].image][t[2]].severity
             /\ es[t].severity \in severities
  <2>1. Vulns[order[t[1]]][t[2]].severity \in severities
    BY <1>5, ImagesAssumption, VulnsAssumption
  <2> QED
    BY <1>5, <1>6, <2>1
<1>8. p \in Injection(DOMAIN es, Listed(S))
  <2>1. p \in [DOMAIN es -> Listed(S)]
    BY <1>7 DEF Listed
  <2>2. ASSUME NEW t \in DOMAIN es, NEW u \in DOMAIN es, p[t] = p[u] PROVE t = u
    <3>1. order[t[1]] = order[u[1]] /\ t[2] = u[2]
      BY <1>7, <2>2
    <3>2. t = <<t[1], t[2]>> /\ u = <<u[1], u[2]>> /\ t[1] = u[1]
      BY <1>3, <1>5, <3>1
    <3> QED
      BY <3>1, <3>2
  <2> HIDE DEF p
  <2> QED
    BY <2>1, <2>2 DEF Injection, IsInjective
<1>9. p \in Surjection(DOMAIN es, Listed(S))
  <2>1. ASSUME NEW q \in Listed(S) PROVE \E t \in DOMAIN es: p[t] = q
    <3>1. q = <<q[1], q[2]>> /\ q[1] \in S /\ q[2] \in DOMAIN Vulns[q[1]]
      BY ListedFacts
    <3>2. PICK k \in DOMAIN order: order[k] = q[1]
      BY <1>3, <3>1 DEF ToSet
    <3> DEFINE t == <<k, q[2]>>
    <3>3. t \in DOMAIN es /\ t[1] = k /\ t[2] = q[2]
      BY <1>4, <3>1, <3>2 DEF Turns
    <3>4. p[t] = q
      BY <1>7, <3>1, <3>2, <3>3
    <3> QED
      BY <3>3, <3>4
  <2>2. p \in [DOMAIN es -> Listed(S)]
    BY <1>8 DEF Injection
  <2> HIDE DEF p
  <2> QED
    BY <2>1, <2>2 DEF Surjection
<1>10. IsFiniteSet(DOMAIN es)
  BY <1>8, ListedFacts, FS_Injection
<1>11. p \in Bijection(DOMAIN es, Listed(S))
  BY <1>8, <1>9 DEF Bijection
<1>12. DOMAIN es \subseteq Nat \X Nat
  BY <1>5
<1> QED
  BY <1>7, <1>10, <1>11, <1>12 DEF es

-----------------------------------------------------------------------------
(* The numbers of a set of entries *)
Sound(es) ==
    /\ IsFiniteSet(DOMAIN es) /\ DOMAIN es \subseteq Nat \X Nat
    /\ \A t \in DOMAIN es: es[t].severity \in severities

LEMMA EarlierIsTotal ==
    /\ \A t, u \in Nat \X Nat: t # u => Earlier(t, u) \/ Earlier(u, t)
    /\ \A t, u, v \in Nat \X Nat: Earlier(t, u) /\ Earlier(u, v) => Earlier(t, v)
<1>1. ASSUME NEW t \in Nat \X Nat, NEW u \in Nat \X Nat, t # u PROVE Earlier(t, u) \/ Earlier(u, t)
  <2>1. t[1] \in Nat /\ t[2] \in Nat /\ u[1] \in Nat /\ u[2] \in Nat
    OBVIOUS
  <2>2. t[1] # u[1] \/ t[2] # u[2]
    BY <1>1
  <2> QED
    BY <2>1, <2>2 DEF Earlier
<1>2. \A t, u, v \in Nat \X Nat: Earlier(t, u) /\ Earlier(u, v) => Earlier(t, v)
  BY DEF Earlier
<1> QED
  BY <1>1, <1>2

LEMMA CVEsFinite ==
    ASSUME NEW es, Sound(es) PROVE IsFiniteSet(CVEsOf(es))
<1>1. [t \in DOMAIN es |-> es[t].cve] \in Surjection(DOMAIN es, CVEsOf(es))
  BY DEF Surjection, CVEsOf
<1> QED
  BY <1>1, FS_Surjection DEF Sound

(* The severity kept for a CVE is one it was met with. *)
LEMMA RiskFacts ==
    ASSUME NEW es, Sound(es)
    PROVE  /\ DOMAIN firstRisk(es) = CVEsOf(es) /\ DOMAIN riskByCVE(es) = CVEsOf(es)
           /\ \A c \in CVEsOf(es):
                 /\ \E t \in TurnsOf(es, c): firstRisk(es)[c] = es[t].severity
                 /\ \E t \in TurnsOf(es, c): riskByCVE(es)[c] = es[t].severity
<1>1. ASSUME NEW c \in CVEsOf(es)
      PROVE  /\ \E t \in TurnsOf(es, c): \A u \in TurnsOf(es, c) \ {t}: Earlier(t, u)
             /\ \E t \in TurnsOf(es, c): \A u \in TurnsOf(es, c) \ {t}: Earlier(u, t)
  <2> DEFINE D == TurnsOf(es, c)
             R == {w \in D \X D: Earlier(w[1], w[2])}
             Q == {w \in D \X D: Earlier(w[2], w[1])}
  <2>1. D # {} /\ D \in SUBSET (DOMAIN es)
    BY DEF CVEsOf, TurnsOf
  <2>2. IsFiniteSet(D) /\ D \subseteq Nat \X Nat
    BY <2>1, FS_Subset DEF Sound
  <2> HIDE DEF D
  <2>3. \A t, u \in D: t # u => Earlier(t, u) \/ Earlier(u, t)
    BY <2>2, EarlierIsTotal
  <2>4. \A t, u, v \in D: Earlier(t, u) /\ Earlier(u, v) => Earlier(t, v)
    BY <2>2, EarlierIsTotal
  <2>5. \A t, u \in D: (<<t, u>> \in R <=> Earlier(t, u)) /\ (<<t, u>> \in Q <=> Earlier(u, t))
    OBVIOUS
  <2> HIDE DEF R, Q
  <2>6. \E t \in D: \A u \in D \ {t}: <<t, u>> \in R
    <3>1. \A t, u \in D: t # u => <<t, u>> \in R \/ <<u, t>> \in R
      BY <2>3, <2>5
    <3>2. \A t, u, v \in D: <<t, u>> \in R /\ <<u, v>> \in R => <<t, v>> \in R
      BY <2>4, <2>5
    <3> QED
      BY <2>1, <2>2, <3>1, <3>2, FirstElement
  <2>7. \E t \in D: \A u \in D \ {t}: <<t, u>> \in Q
    <3>1. \A t, u \in D: t # u => <<t, u>> \in Q \/ <<u, t>> \in Q
      BY <2>3, <2>5
    <3>2. \A t, u, v \in D: <<t, u>> \in Q /\ <<u, v>> \in Q => <<t, v>> \in Q
      BY <2>4, <2>5
    <3> QED
      BY <2>1, <2>2, <3>1, <3>2, FirstElement
  <2> QED
    BY <2>5, <2>6, <2>7 DEF D
<1>2. ASSUME NEW c \in CVEsOf(es)
      PROVE  /\ \E t \in TurnsOf(es, c): firstRisk(es)[c] = es[t].severity
             /\ \E t \in TurnsOf(es, c): riskByCVE(es)[c] = es[t].severity
  <2> DEFINE D == TurnsOf(es, c)
             first == CHOOSE t \in D: \A u \in D \ {t}: Earlier(t, u)
             last == CHOOSE t \in D: \A u \in D \ {t}: Earlier(u, t)
  <2>1. firstRisk(es)[c] = es[first].severity /\ riskByCVE(es)[c] = es[last].severity
    BY DEF firstRisk, riskByCVE
  <2>2. first \in D
    BY <1>1, Zenon
  <2>3. last \in D
    BY <1>1, Zenon
  <2> HIDE DEF first, last
  <2> QED
    BY <2>1, <2>2, <2>3
<1>3. DOMAIN firstRisk(es) = CVEsOf(es) /\ DOMAIN riskByCVE(es) = CVEsOf(es)
  BY DEF firstRisk, riskByCVE
<1> QED
  BY <1>2, <1>3

LEMMA SeveritiesFinite == IsFiniteSet(severities)
<1>1. IsFiniteSet({"CRITICAL"} \cup {"HIGH"}) /\ IsFiniteSet({"MEDIUM"} \cup {"LOW"})
  BY FS_Singleton, FS_AddElement
<1>2. IsFiniteSet(({"CRITICAL"} \cup {"HIGH"}) \cup ({"MEDIUM"} \cup {"LOW"}))
  BY <1>1, FS_Union
<1>3. IsFiniteSet((({"CRITICAL"} \cup {"HIGH"}) \cup ({"MEDIUM"} \cup {"LOW"})) \cup {"UNKNOWN"})
  BY <1>2, FS_AddElement
<1>4. severities = (({"CRITICAL"} \cup {"HIGH"}) \cup ({"MEDIUM"} \cup {"LOW"})) \cup {"UNKNOWN"}
  BY DEF severities
<1> QED
  BY <1>3, <1>4

LEMMA CountOfRisks ==
    ASSUME NEW C, IsFiniteSet(C), NEW risk, DOMAIN risk = C, \A c \in C: risk[c] \in severities
    PROVE  Total(riskCount(risk)) = Cardinality(C)
<1>1. riskCount(risk) = [s \in severities |-> Cardinality({c \in C: risk[c] = s})]
  BY DEF riskCount
<1> QED
  BY <1>1, SeveritiesFinite, SumOfCounts

(* Occurrences are counted by severity and by CVE, CVEs once. *)
LEMMA TotalFacts ==
    ASSUME NEW es, Sound(es)
    PROVE  /\ Total(riskOccurrence(es)) = Cardinality(DOMAIN es)
           /\ Total(vulOccurrence(es)) = Cardinality(DOMAIN es)
           /\ Total(riskCount(firstRisk(es))) = Cardinality(CVEsOf(es))
           /\ Total(riskCount(riskByCVE(es))) = Cardinality(CVEsOf(es))
<1> DEFINE E == DOMAIN es
           sev == [t \in E |-> es[t].severity]
           cve == [t \in E |-> es[t].cve]
<1>1. IsFiniteSet(E) /\ IsFiniteSet(severities) /\ IsFiniteSet(CVEsOf(es))
  BY SeveritiesFinite, CVEsFinite DEF Sound
<1>2. (\A t \in E: sev[t] \in severities) /\ \A t \in E: cve[t] \in CVEsOf(es)
  BY DEF Sound, CVEsOf
<1>3. riskOccurrence(es) = [s \in severities |-> Cardinality({t \in E: sev[t] = s})]
  <2>1. \A s: {t \in E: sev[t] = s} = {t \in DOMAIN es: es[t].severity = s}
    OBVIOUS
  <2> QED
    BY <2>1 DEF riskOccurrence
<1>4. vulOccurrence(es) = [c \in CVEsOf(es) |-> Cardinality({t \in E: cve[t] = c})]
  <2>1. \A c: {t \in E: cve[t] = c} = TurnsOf(es, c)
    BY DEF TurnsOf
  <2> QED
    BY <2>1 DEF vulOccurrence
<1> HIDE DEF E, sev, cve
<1>5. Total(riskOccurrence(es)) = Cardinality(E)
  BY <1>1, <1>2, <1>3, SumOfCounts
<1>6. Total(vulOccurrence(es)) = Cardinality(E)
  BY <1>1, <1>2, <1>4, SumOfCounts
<1>7. /\ \A c \in CVEsOf(es): firstRisk(es)[c] \in severities /\ riskByCVE(es)[c] \in severities
      /\ DOMAIN firstRisk(es) = CVEsOf(es) /\ DOMAIN riskByCVE(es) = CVEsOf(es)
  BY RiskFacts DEF Sound, TurnsOf
<1> QED
  BY <1>1, <1>5, <1>6, <1>7, CountOfRisks DEF E

-----------------------------------------------------------------------------
(* The response of a CVEReport *)
ReportImages(order, found, cve) == {i \in ToSet(order): RelevantResult(i, found, cve)}

ReportEntries(order, found, cve) ==
    RelevantEntries(Entries(order, ReportImages(order, found, cve) \cap found), cve)

OfImage(es, i) == RestrictValues(es, LAMBDA e: e.image = i)

LEMMA ReportFields ==
    ASSUME NEW order, NEW found, NEW cve
    PROVE  LET r == GenerateReports(order, found, cve)
               imgs == ReportImages(order, found, cve)
               es == ReportEntries(order, found, cve)
           IN  /\ DOMAIN r.images = imgs
               /\ \A i \in imgs: r.images[i].occurrence = riskOccurrence(OfImage(es, i))
               /\ r.occurrence = riskOccurrence(es)
               /\ r.count = riskCount(firstRisk(es))
               /\ r.cves = vulOccurrence(es)
BY DEF GenerateReports, ReportImages, ReportEntries, OfImage

(* The turns with a severity, of all images or of one. *)
WithSeverity(es, s) == {t \in DOMAIN es: es[t].severity = s}
ImageSeverity(es, i, s) == {t \in DOMAIN es: es[t].image = i /\ es[t].severity = s}

LEMMA OfImageFacts ==
    ASSUME NEW es, NEW i
    PROVE  /\ DOMAIN OfImage(es, i) = {t \in DOMAIN es: es[t].image = i}
           /\ \A t \in DOMAIN OfImage(es, i): OfImage(es, i)[t] = es[t]
           /\ \A s \in severities:
                 riskOccurrence(OfImage(es, i))[s] = Cardinality(ImageSeverity(es, i, s))
<1>1. /\ DOMAIN OfImage(es, i) = {t \in DOMAIN es: es[t].image = i}
      /\ \A t \in DOMAIN OfImage(es, i): OfImage(es, i)[t] = es[t]
  BY DEF OfImage, RestrictValues, Restrict
<1>2. ASSUME NEW s
      PROVE  {t \in DOMAIN OfImage(es, i): OfImage(es, i)[t].severity = s}
               = ImageSeverity(es, i, s)
  BY <1>1 DEF ImageSeverity
<1> QED
  BY <1>1, <1>2 DEF riskOccurrence

LEMMA ReportSound ==
    ASSUME NEW A \in SUBSET Images, NEW order \in Orders(A), NEW found \in SUBSET A, NEW cve
    PROVE  LET imgs == ReportImages(order, found, cve)
               es == ReportEntries(order, found, cve)
           IN  /\ imgs \in SUBSET A
               /\ Sound(es)
               /\ \A t \in DOMAIN es: es[t].image \in imgs /\ cve \in {Everything, es[t].cve}
<1> DEFINE imgs == ReportImages(order, found, cve)
           S == imgs \cap found
           all == Entries(order, S)
           es == ReportEntries(order, found, cve)
<1>1. IsFiniteSet(A)
  BY ImagesAssumption, FS_Subset
<1>2. imgs \in SUBSET A
  BY <1>1, OrderFacts DEF ReportImages
<1>3. S \in SUBSET A
  BY <1>2
<1>4. /\ DOMAIN es = {t \in DOMAIN all: cve \in {Everything, all[t].cve}}
      /\ \A t \in DOMAIN es: es[t] = all[t]
  BY DEF ReportEntries, RelevantEntries, RestrictValues, Restrict
<1> HIDE DEF imgs, es, S, all
<1>5. /\ IsFiniteSet(DOMAIN all) /\ DOMAIN all \subseteq Nat \X Nat
      /\ \A t \in DOMAIN all: all[t].severity \in severities /\ all[t].image \in S
  BY <1>3, TurnsFacts DEF all
<1>6. IsFiniteSet(DOMAIN es) /\ DOMAIN es \subseteq DOMAIN all
  BY <1>4, <1>5, FS_Subset
<1> QED
  BY <1>2, <1>4, <1>5, <1>6 DEF Sound, imgs, S, es

LEMMA ReportAddsUp ==
    ASSUME NEW A \in SUBSET Images, NEW order \in Orders(A), NEW found \in SUBSET A, NEW cve
    PROVE  AddsUp(GenerateReports(order, found, cve))
<1> DEFINE r == GenerateReports(order, found, cve)
           imgs == ReportImages(order, found, cve)
           es == ReportEntries(order, found, cve)
<1>1. /\ DOMAIN r.images = imgs
      /\ \A i \in imgs: r.images[i].occurrence = riskOccurrence(OfImage(es, i))
      /\ r.occurrence = riskOccurrence(es)
      /\ r.count = riskCount(firstRisk(es))
      /\ r.cves = vulOccurrence(es)
  BY ReportFields
<1>2. imgs \in SUBSET A /\ Sound(es) /\ \A t \in DOMAIN es: es[t].image \in imgs
  BY ReportSound
<1> HIDE DEF r, imgs, es
<1>3. IsFiniteSet(imgs)
  BY <1>2, ImagesAssumption, FS_Subset
<1>4. ASSUME NEW s \in severities
      PROVE  r.occurrence[s] = Total([i \in DOMAIN r.images |-> r.images[i].occurrence[s]])
  <2> DEFINE E == {t \in DOMAIN es: es[t].severity = s}
             image == [t \in E |-> es[t].image]
  <2>1. IsFiniteSet(E) /\ \A t \in E: image[t] \in imgs
    BY <1>2, FS_Subset DEF Sound
  <2>2. \A i \in imgs: r.images[i].occurrence[s] = Cardinality({t \in E: image[t] = i})
    <3>1. \A i: {t \in E: image[t] = i} = ImageSeverity(es, i, s)
      BY DEF ImageSeverity
    <3>2. \A i \in imgs: r.images[i].occurrence[s] = riskOccurrence(OfImage(es, i))[s]
      BY <1>1
    <3>3. \A i: riskOccurrence(OfImage(es, i))[s] = Cardinality(ImageSeverity(es, i, s))
      BY <1>4, OfImageFacts
    <3> HIDE DEF E, image
    <3> QED
      BY <3>1, <3>2, <3>3
  <2>3. r.occurrence[s] = Cardinality(E)
    BY <1>1 DEF riskOccurrence
  <2> HIDE DEF E, image
  <2>4. [i \in DOMAIN r.images |-> r.images[i].occurrence[s]]
          = [i \in imgs |-> Cardinality({t \in E: image[t] = i})]
    BY <1>1, <2>2
  <2>5. Total([i \in imgs |-> Cardinality({t \in E: image[t] = i})]) = Cardinality(E)
    BY <1>3, <2>1, SumOfCounts
  <2> QED
    BY <2>3, <2>4, <2>5
<1>5. Total(r.occurrence) = Total(r.cves)
  BY <1>1, <1>2, TotalFacts
<1>6. Total(r.count) = Cardinality(DOMAIN r.cves)
  BY <1>1, <1>2, TotalFacts DEF vulOccurrence
<1> QED
  BY <1>4, <1>5, <1>6 DEF AddsUp, r

(* A call that is answered has a result for every image. *)
LEMMA ResultsWhole == ScanInv /\ Answered => Results = asked
BY NoneAssumption DEF ScanInv, PipeInv, PipeTypeOK, JobsHeld, StopInOrder, NothingLost,
                      Covered, Busy, Answered, Results

(* Every CVEReport that is answered lists the images it was asked about    *)
(* and adds up, whatever order the maps are ranged over in: the images of  *)
(* the response account for its occurrences, and each CVE is counted once. *)
THEOREM ReportNumbersAddUp == Spec => []ReportsAddUp
<1>1. ScanInv => ReportsAddUp
  <2> SUFFICES ASSUME ScanInv, Answered, NEW order \in Orders(Results), NEW cve \in Topics
               PROVE  LET r == GenerateReports(order, FoundImages, cve)
                      IN  /\ AddsUp(r)
                          /\ cve = Everything => DOMAIN r.images = asked
                          /\ cve # Everything => DOMAIN r.cves \subseteq {cve}
    BY DEF ReportsAddUp
  <2> DEFINE r == GenerateReports(order, FoundImages, cve)
             imgs == ReportImages(order, FoundImages, cve)
             es == ReportEntries(order, FoundImages, cve)
  <2>1. order \in Orders(asked) /\ asked \in SUBSET Images /\ FoundImages \in SUBSET asked
    BY ResultsWhole DEF ScanInv, PipeInv, PipeTypeOK, FoundImages
  <2>2. IsFiniteSet(asked)
    BY <2>1, ImagesAssumption, FS_Subset
  <2>3. AddsUp(r)
    BY <2>1, ReportAddsUp
  <2>4. DOMAIN r.images = imgs /\ r.cves = vulOccurrence(es)
    BY ReportFields
  <2>5. \A t \in DOMAIN es: cve \in {Everything, es[t].cve}
    BY <2>1, ReportSound
  <2>6. cve = Everything => imgs = asked
    BY <2>1, <2>2, OrderFacts DEF ReportImages, RelevantResult
  <2> HIDE DEF r, imgs, es
  <2>7. cve # Everything => DOMAIN r.cves \subseteq {cve}
    BY <2>4, <2>5 DEF vulOccurrence, CVEsOf
  <2> QED
    BY <2>3, <2>4, <2>6, <2>7 DEF r
<1> QED
  BY <1>1, ScanInvariant, PTL

-----------------------------------------------------------------------------
(* The metrics and the response *)

(* The turns at which the loops meet a set of vulnerabilities. *)
LEMMA CountOfListed ==
    ASSUME NEW A \in SUBSET Images, NEW order \in Orders(A), NEW S \in SUBSET A,
           NEW W \in SUBSET Listed(S)
    PROVE  LET es == Entries(order, S)
           IN  Cardinality({t \in DOMAIN es: <<es[t].image, t[2]>> \in W}) = Cardinality(W)
<1> DEFINE es == Entries(order, S)
           D == DOMAIN es
           p == [t \in D |-> <<es[t].image, t[2]>>]
           T == {t \in D: <<es[t].image, t[2]>> \in W}
           q == [t \in T |-> <<es[t].image, t[2]>>]
<1>1. p \in Bijection(D, Listed(S)) /\ IsFiniteSet(D)
  BY TurnsFacts
<1>2. T \in SUBSET D /\ \A t \in D: t \in T <=> p[t] \in W
  OBVIOUS
<1>3. q \in [T -> W] /\ \A t \in T: q[t] = p[t]
  OBVIOUS
<1> HIDE DEF es, D, p, q, T
<1>4. /\ \A t, u \in D: p[t] = p[u] => t = u
      /\ \A w \in Listed(S): \E t \in D: p[t] = w
  BY <1>1 DEF Bijection, Injection, Surjection, IsInjective
<1>5. q \in Injection(T, W)
  BY <1>2, <1>3, <1>4 DEF Injection, IsInjective
<1>6. q \in Surjection(T, W)
  BY <1>2, <1>3, <1>4 DEF Surjection
<1>7. q \in Bijection(T, W)
  BY <1>5, <1>6 DEF Bijection
<1>8. IsFiniteSet(T)
  BY <1>1, <1>2, FS_Subset
<1>9. Cardinality(T) = Cardinality(W)
  BY <1>7, <1>8, FS_Bijection DEF ExistsBijection
<1> QED
  BY <1>9 DEF T, D, es

(* The vulnerabilities of a CVE or of a severity. *)
ListedCVE(S, c) == {w \in Listed(S): Vulns[w[1]][w[2]].cve = c}
ListedSeverity(S, s) == {w \in Listed(S): Vulns[w[1]][w[2]].severity = s}

(* The numbers of all entries depend on the images, not on the order. *)
LEMMA NumbersOfListed ==
    ASSUME NEW A \in SUBSET Images, NEW order \in Orders(A), NEW S \in SUBSET A
    PROVE  LET es == Entries(order, S)
           IN  /\ CVEsOf(es) = {Vulns[w[1]][w[2]].cve: w \in Listed(S)}
               /\ \A c: Cardinality(TurnsOf(es, c)) = Cardinality(ListedCVE(S, c))
               /\ \A s: Cardinality(WithSeverity(es, s)) = Cardinality(ListedSeverity(S, s))
               /\ \A s: \A i \in S:
                     Cardinality(ImageSeverity(es, i, s)) = Cardinality(ListedSeverity({i}, s))
<1> DEFINE es == Entries(order, S)
           D == DOMAIN es
           p == [t \in D |-> <<es[t].image, t[2]>>]
<1>1. p \in Bijection(D, Listed(S))
  BY TurnsFacts
<1>2. \A t \in D: /\ p[t] = <<es[t].image, t[2]>> /\ p[t][1] = es[t].image
                  /\ es[t].cve = Vulns[p[t][1]][p[t][2]].cve
                  /\ es[t].severity = Vulns[p[t][1]][p[t][2]].severity
  BY TurnsFacts
<1>3. \A W \in SUBSET Listed(S): Cardinality({t \in D: <<es[t].image, t[2]>> \in W}) = Cardinality(W)
  BY CountOfListed
<1> HIDE DEF es, D, p
<1>4. /\ \A t \in D: p[t] \in Listed(S)
      /\ \A w \in Listed(S): \E t \in D: p[t] = w
  BY <1>1 DEF Bijection, Injection, Surjection
<1>5. CVEsOf(es) = {Vulns[w[1]][w[2]].cve: w \in Listed(S)}
  <2>1. CVEsOf(es) = {es[t].cve: t \in D}
    BY DEF CVEsOf, D
  <2>2. {es[t].cve: t \in D} \subseteq {Vulns[w[1]][w[2]].cve: w \in Listed(S)}
    BY <1>2, <1>4
  <2>3. {Vulns[w[1]][w[2]].cve: w \in Listed(S)} \subseteq {es[t].cve: t \in D}
    BY <1>2, <1>4
  <2> QED
    BY <2>1, <2>2, <2>3
<1>6. ASSUME NEW T \in SUBSET D, NEW W \in SUBSET Listed(S), \A t \in D: t \in T <=> p[t] \in W
      PROVE  Cardinality(T) = Cardinality(W)
  <2>1. T = {t \in D: <<es[t].image, t[2]>> \in W}
    BY <1>2, <1>6
  <2> QED
    BY <1>3, <2>1
<1>7. ASSUME NEW c PROVE Cardinality(TurnsOf(es, c)) = Cardinality(ListedCVE(S, c))
  <2>1. /\ TurnsOf(es, c) \in SUBSET D /\ ListedCVE(S, c) \in SUBSET Listed(S)
        /\ \A t \in D: t \in TurnsOf(es, c) <=> p[t] \in ListedCVE(S, c)
    BY <1>2, <1>4 DEF TurnsOf, ListedCVE, D
  <2> QED
    BY <1>6, <2>1
<1>8. ASSUME NEW s PROVE Cardinality(WithSeverity(es, s)) = Cardinality(ListedSeverity(S, s))
  <2>1. /\ WithSeverity(es, s) \in SUBSET D /\ ListedSeverity(S, s) \in SUBSET Listed(S)
        /\ \A t \in D: t \in WithSeverity(es, s) <=> p[t] \in ListedSeverity(S, s)
    BY <1>2, <1>4 DEF WithSeverity, ListedSeverity, D
  <2> QED
    BY <1>6, <2>1
<1>9. ASSUME NEW i \in S, NEW s
      PROVE  Cardinality(ImageSeverity(es, i, s)) = Cardinality(ListedSeverity({i}, s))
  <2>1. \A w: w \in Listed({i}) <=> w \in Listed(S) /\ w[1] = i
    BY DEF Listed
  <2>2. /\ ImageSeverity(es, i, s) \in SUBSET D /\ ListedSeverity({i}, s) \in SUBSET Listed(S)
        /\ \A t \in D: t \in ImageSeverity(es, i, s) <=> p[t] \in ListedSeverity({i}, s)
    BY <1>2, <1>4, <2>1 DEF ImageSeverity, ListedSeverity, D
  <2> QED
    BY <1>6, <2>2
<1> QED
  BY <1>5, <1>7, <1>8, <1>9 DEF es

LEMMA OccurrenceOf ==
    ASSUME NEW es
    PROVE  riskOccurrence(es) = [s \in severities |-> Cardinality(WithSeverity(es, s))]
BY DEF riskOccurrence, WithSeverity

(* Two loops over the same images, in their own orders. *)
LEMMA SameNumbers ==
    ASSUME NEW A \in SUBSET Images, NEW order \in Orders(A),
           NEW B \in SUBSET Images, NEW other \in Orders(B),
           NEW S \in SUBSET A, S \in SUBSET B
    PROVE  LET es == Entries(order, S)
               fs == Entries(other, S)
           IN  /\ riskOccurrence(es) = riskOccurrence(fs)
               /\ CVEsOf(es) = CVEsOf(fs)
               /\ vulOccurrence(es) = vulOccurrence(fs)
<1> DEFINE es == Entries(order, S)
           fs == Entries(other, S)
           All == {Vulns[w[1]][w[2]].cve: w \in Listed(S)}
<1>1. /\ CVEsOf(es) = All
      /\ \A c: Cardinality(TurnsOf(es, c)) = Cardinality(ListedCVE(S, c))
      /\ \A s: Cardinality(WithSeverity(es, s)) = Cardinality(ListedSeverity(S, s))
  BY NumbersOfListed
<1>2. /\ CVEsOf(fs) = All
      /\ \A c: Cardinality(TurnsOf(fs, c)) = Cardinality(ListedCVE(S, c))
      /\ \A s: Cardinality(WithSeverity(fs, s)) = Cardinality(ListedSeverity(S, s))
  BY NumbersOfListed
<1> HIDE DEF es, fs, All
<1>3. riskOccurrence(es) = riskOccurrence(fs)
  BY <1>1, <1>2, OccurrenceOf
<1>4. vulOccurrence(es) = vulOccurrence(fs)
  BY <1>1, <1>2 DEF vulOccurrence
<1> QED
  BY <1>1, <1>2, <1>3, <1>4 DEF es, fs

LEMMA EntriesSound ==
    ASSUME NEW A \in SUBSET Images, NEW order \in Orders(A), NEW S \in SUBSET A
    PROVE  Sound(Entries(order, S))
BY TurnsFacts DEF Sound

(* A CVE that has one severity has it in every map. *)
LEMMA SameRisks ==
    ASSUME NEW A \in SUBSET Images, NEW order \in Orders(A),
           NEW B \in SUBSET Images, NEW other \in Orders(B),
           NEW S \in SUBSET A, S \in SUBSET B, OneSeverity(S)
    PROVE  riskCount(firstRisk(Entries(order, S))) = riskCount(riskByCVE(Entries(other, S)))
<1> DEFINE es == Entries(order, S)
           fs == Entries(other, S)
           f == firstRisk(es)
           g == riskByCVE(fs)
<1>1. Sound(es) /\ Sound(fs)
  BY EntriesSound
<1>2. /\ \A t \in DOMAIN es: /\ es[t].image \in S /\ t[2] \in DOMAIN Vulns[es[t].image]
                             /\ es[t].cve = Vulns[es[t].image][t[2]].cve
                             /\ es[t].severity = Vulns[es[t].image][t[2]].severity
      /\ \A t \in DOMAIN fs: /\ fs[t].image \in S /\ t[2] \in DOMAIN Vulns[fs[t].image]
                             /\ fs[t].cve = Vulns[fs[t].image][t[2]].cve
                             /\ fs[t].severity = Vulns[fs[t].image][t[2]].severity
  <2>1. \A t \in DOMAIN es: /\ es[t].image \in S /\ t[2] \in DOMAIN Vulns[es[t].image]
                            /\ es[t].cve = Vulns[es[t].image][t[2]].cve
                            /\ es[t].severity = Vulns[es[t].image][t[2]].severity
    BY TurnsFacts
  <2>2. \A t \in DOMAIN fs: /\ fs[t].image \in S /\ t[2] \in DOMAIN Vulns[fs[t].image]
                            /\ fs[t].cve = Vulns[fs[t].image][t[2]].cve
                            /\ fs[t].severity = Vulns[fs[t].image][t[2]].severity
    BY TurnsFacts
  <2> QED
    BY <2>1, <2>2
<1>3. CVEsOf(es) = CVEsOf(fs)
  BY SameNumbers
<1> HIDE DEF es, fs
<1>4. /\ DOMAIN f = CVEsOf(es) /\ DOMAIN g = CVEsOf(fs)
      /\ \A c \in CVEsOf(es): \E t \in TurnsOf(es, c): f[c] = es[t].severity
      /\ \A c \in CVEsOf(fs): \E t \in TurnsOf(fs, c): g[c] = fs[t].severity
  BY <1>1, RiskFacts
<1>5. ASSUME NEW t \in DOMAIN es, NEW u \in DOMAIN fs, es[t].cve = fs[u].cve
      PROVE  es[t].severity = fs[u].severity
  BY <1>2, <1>5 DEF OneSeverity
<1> HIDE DEF f, g
<1>6. \A c \in DOMAIN f: f[c] = g[c]
  BY <1>3, <1>4, <1>5 DEF TurnsOf
<1>7. \A s: {c \in DOMAIN f: f[c] = s} = {c \in DOMAIN g: g[c] = s}
  BY <1>3, <1>4, <1>6
<1>8. riskCount(f) = riskCount(g)
  BY <1>7 DEF riskCount
<1> QED
  BY <1>8 DEF f, g, es, fs

LEMMA OneImage ==
    ASSUME NEW i PROVE <<i>> \in Orders({i})
<1>1. Cardinality({i}) = 1
  BY FS_Singleton
<1>2. 1 .. 1 = {1}
  OBVIOUS
<1>3. <<i>> \in [{1} -> {i}]
  OBVIOUS
<1> QED
  BY <1>1, <1>2, <1>3 DEF Orders, SetToSeqs

(* The occurrences of one image, in the response and in its metrics. *)
LEMMA ImageNumbers ==
    ASSUME NEW A \in SUBSET Images, NEW order \in Orders(A), NEW S \in SUBSET A, NEW i \in S
    PROVE  riskOccurrence(OfImage(Entries(order, S), i)) = riskOccurrence(Entries(<<i>>, {i}))
<1> DEFINE es == Entries(order, S)
           fs == Entries(<<i>>, {i})
<1>1. {i} \in SUBSET Images /\ {i} \in SUBSET {i}
  OBVIOUS
<1>2. ASSUME NEW s \in severities
      PROVE  riskOccurrence(OfImage(es, i))[s] = riskOccurrence(fs)[s]
  <2>1. riskOccurrence(OfImage(es, i))[s] = Cardinality(ImageSeverity(es, i, s))
    BY <1>2, OfImageFacts
  <2>2. Cardinality(ImageSeverity(es, i, s)) = Cardinality(ListedSeverity({i}, s))
    BY NumbersOfListed
  <2>3. Cardinality(WithSeverity(fs, s)) = Cardinality(ListedSeverity({i}, s))
    BY <1>1, OneImage, NumbersOfListed
  <2>4. riskOccurrence(fs)[s] = Cardinality(WithSeverity(fs, s))
    BY <1>2, OccurrenceOf
  <2> QED
    BY <2>1, <2>2, <2>3, <2>4
<1>3. /\ riskOccurrence(OfImage(es, i)) = [s \in severities |-> riskOccurrence(OfImage(es, i))[s]]
      /\ riskOccurrence(fs) = [s \in severities |-> riskOccurrence(fs)[s]]
  BY DEF riskOccurrence
<1> HIDE DEF es, fs
<1>4. riskOccurrence(OfImage(es, i)) = riskOccurrence(fs)
  BY <1>2, <1>3
<1> QED
  BY <1>4 DEF es, fs

(* Fewer images have no more occurrences. *)
LEMMA FewerOccurrences ==
    ASSUME NEW A \in SUBSET Images, NEW order \in Orders(A), NEW S \in SUBSET A,
           NEW U \in SUBSET S, NEW s \in severities
    PROVE  riskOccurrence(Entries(order, U))[s] <= riskOccurrence(Entries(order, S))[s]
<1>1. ListedSeverity(U, s) \in SUBSET ListedSeverity(S, s)
  BY DEF Listed, ListedSeverity
<1>2. IsFiniteSet(ListedSeverity(S, s))
  <2>1. IsFiniteSet(Listed(S)) /\ ListedSeverity(S, s) \in SUBSET Listed(S)
    BY ListedFacts DEF ListedSeverity
  <2> QED
    BY <2>1, FS_Subset
<1>3. riskOccurrence(Entries(order, U))[s] = Cardinality(ListedSeverity(U, s))
  BY NumbersOfListed, OccurrenceOf
<1>4. riskOccurrence(Entries(order, S))[s] = Cardinality(ListedSeverity(S, s))
  BY NumbersOfListed, OccurrenceOf
<1> QED
  BY <1>1, <1>2, <1>3, <1>4, FS_Subset

(* A request about everything uses every entry of the images found. *)
LEMMA ReportOnEverything ==
    ASSUME NEW A \in SUBSET Images, NEW order \in Orders(A), NEW found \in SUBSET A
    PROVE  /\ ReportImages(order, found, Everything) = A
           /\ ReportEntries(order, found, Everything) = Entries(order, found)
<1>1. IsFiniteSet(A)
  BY ImagesAssumption, FS_Subset
<1>2. ReportImages(order, found, Everything) = A
  BY <1>1, OrderFacts DEF ReportImages, RelevantResult
<1>3. ReportEntries(order, found, Everything) = RelevantEntries(Entries(order, found), Everything)
  <2>1. A \cap found = found
    OBVIOUS
  <2> QED
    BY <1>2, <2>1 DEF ReportEntries
<1> DEFINE es == Entries(order, found)
<1>4. es = [t \in DOMAIN es |-> es[t]]
  BY DEF Entries
<1> HIDE DEF es
<1>5. RelevantEntries(es, Everything) = es
  BY <1>4 DEF RelevantEntries, RestrictValues, Restrict
<1> QED
  BY <1>2, <1>3, <1>5 DEF es

(* The metrics of the cluster, of its namespaces and of its images agree   *)
(* with a CVEReport of the same results, computed by different code and in *)
(* any two orders: the numbers are those of what the reports of the images *)
(* list, which the turns of either loop match one to one.                  *)
THEOREM MetricsAgreeWithReports == Spec => []MetricsAgree
<1>1. ScanInv => MetricsAgree
  <2> SUFFICES ASSUME ScanInv, Answered,
                      NEW order \in Orders(Results), NEW other \in Orders(FoundImages)
               PROVE  LET r == GenerateReports(order, FoundImages, Everything)
                          c == collectClusterCVEMetrics(other)
                      IN  /\ r.occurrence = c.occurrence
                          /\ r.cves = c.cves
                          /\ Total(r.count) = Total(c.count)
                          /\ OneSeverity(FoundImages) => r.count = c.count
                          /\ \A i \in FoundImages:
                                r.images[i].occurrence = collectImageCVEMetrics(i).occurrence
                          /\ \A ns \in UNION {NamespacesOf[i]: i \in Images}, s \in severities:
                                collectNamespaceCVEMetrics(other, ns).occurrence[s] <= c.occurrence[s]
    BY DEF MetricsAgree
  <2> DEFINE F == FoundImages
             r == GenerateReports(order, F, Everything)
             c == collectClusterCVEMetrics(other)
             es == Entries(order, F)
             fs == Entries(other, F)
  <2>1. /\ order \in Orders(asked)
        /\ asked \in SUBSET Images /\ F \in SUBSET asked /\ F \in SUBSET Images
    BY ResultsWhole DEF ScanInv, PipeInv, PipeTypeOK, FoundImages
  <2> HIDE DEF F
  <2>2. other \in Orders(F) /\ F \in SUBSET F
    BY DEF F
  <2>3. ToSet(other) = F
    BY <2>1, <2>2, ImagesAssumption, FS_Subset, OrderFacts
  <2>4. /\ r.occurrence = riskOccurrence(es)
        /\ r.count = riskCount(firstRisk(es))
        /\ r.cves = vulOccurrence(es)
        /\ \A i \in F: r.images[i].occurrence = riskOccurrence(OfImage(es, i))
    <3>1. /\ ReportImages(order, F, Everything) = asked
          /\ ReportEntries(order, F, Everything) = es
      BY <2>1, ReportOnEverything
    <3>2. /\ r.occurrence = riskOccurrence(ReportEntries(order, F, Everything))
          /\ r.count = riskCount(firstRisk(ReportEntries(order, F, Everything)))
          /\ r.cves = vulOccurrence(ReportEntries(order, F, Everything))
          /\ \A i \in ReportImages(order, F, Everything):
                r.images[i].occurrence = riskOccurrence(OfImage(ReportEntries(order, F, Everything), i))
      BY ReportFields
    <3> HIDE DEF r, es
    <3> QED
      BY <2>1, <3>1, <3>2
  <2>5. /\ c.occurrence = riskOccurrence(fs)
        /\ c.count = riskCount(riskByCVE(fs))
        /\ c.cves = vulOccurrence(fs)
    BY <2>3 DEF collectClusterCVEMetrics, Families
  <2>6. Sound(es) /\ Sound(fs)
    BY <2>1, <2>2, EntriesSound
  <2>7. /\ riskOccurrence(es) = riskOccurrence(fs)
        /\ CVEsOf(es) = CVEsOf(fs)
        /\ vulOccurrence(es) = vulOccurrence(fs)
    BY <2>1, <2>2, SameNumbers
  <2>8. OneSeverity(F) => riskCount(firstRisk(es)) = riskCount(riskByCVE(fs))
    BY <2>1, <2>2, SameRisks
  <2>9. \A i \in F: riskOccurrence(OfImage(es, i)) = collectImageCVEMetrics(i).occurrence
    BY <2>1, ImageNumbers DEF collectImageCVEMetrics, Families
  <2>10. ASSUME NEW ns, NEW s \in severities
         PROVE  collectNamespaceCVEMetrics(other, ns).occurrence[s] <= riskOccurrence(fs)[s]
    <3> DEFINE U == {i \in ToSet(other): ns \in NamespacesOf[i]}
    <3>1. U \in SUBSET F
      BY <2>3
    <3>2. collectNamespaceCVEMetrics(other, ns).occurrence = riskOccurrence(Entries(other, U))
      BY DEF collectNamespaceCVEMetrics, Families
    <3> HIDE DEF U
    <3> QED
      BY <2>1, <2>2, <2>10, <3>1, <3>2, FewerOccurrences
  <2> HIDE DEF r, c, es, fs
  <2>11. Total(r.count) = Total(c.count)
    BY <2>4, <2>5, <2>6, <2>7, TotalFacts
  <2>12. /\ r.occurrence = c.occurrence
         /\ r.cves = c.cves
         /\ OneSeverity(F) => r.count = c.count
         /\ \A i \in F: r.images[i].occurrence = collectImageCVEMetrics(i).occurrence
    BY <2>4, <2>5, <2>7, <2>8, <2>9
  <2>13. \A ns \in UNION {NamespacesOf[i]: i \in Images}, s \in severities:
            collectNamespaceCVEMetrics(other, ns).occurrence[s] <= c.occurrence[s]
    BY <2>5, <2>10
  <2> QED
    BY <2>11, <2>12, <2>13 DEF r, c, F
<1> QED
  BY <1>1, ScanInvariant, PTL
=============================================================================
