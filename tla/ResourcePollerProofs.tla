------------------------ MODULE ResourcePollerProofs ------------------------
(***************************************************************************)
(* Proofs about ResourcePoller for every finite set of types, every        *)
(* capacity of the channel and every number of changes.                    *)
(***************************************************************************)
EXTENDS ResourcePoller, FiniteSetTheorems, TLAPS

(* What poller and consumer hold at each point of their loops. *)
Hands ==
    /\ poller \in {"send", "watch"} => hand \in resourceTracker
    /\ poller \in {"start", "idle", "loop", "stopped"} => hand = None
    /\ consumer = "range" => item = None
    /\ consumer = "setup" => item \in Types
    /\ consumer = "scanner" => item \in controllers

(* What the running poll has looked at is tracked. *)
LookedAtIsTracked == (listed \ batch) \cap Watchable \subseteq resourceTracker

(* A type is in one place at a time, and once in the channel. *)
Apart ==
    /\ BeingSent \cap (InChannel \cup BeingSetUp \cup controllers) = {}
    /\ InChannel \cap (BeingSetUp \cup controllers) = {}
    /\ \A i, j \in 1 .. Len(resourceChannel) :
        resourceChannel[i] = resourceChannel[j] => i = j
    /\ consumer = "setup" => item \notin controllers

Base == TypeOK /\ Hands /\ LookedAtIsTracked /\ FlagImpliesTracked /\ QuotaWatchFollows

LEMMA BaseStep == Base /\ [Next]_vars => Base'
<1> SUFFICES ASSUME Base, [Next]_vars PROVE Base'
  OBVIOUS
<1> USE TypesAssumption, CapAssumption, ChangesAssumption
    DEF Base, TypeOK, Hands, LookedAtIsTracked, FlagImpliesTracked, QuotaWatchFollows,
        envVars, pollVars, consVars
<1>1. ASSUME NEW t \in Types, ServeChange(t) PROVE Base'
  BY <1>1 DEF ServeChange
<1>2. CASE Cancel
  BY <1>2 DEF Cancel
<1>3. ASSUME NEW S \in SUBSET Types, Discover(S) PROVE Base'
  BY <1>3 DEF Discover, PollDue
<1>4. CASE DiscoverError
  BY <1>4 DEF DiscoverError, PollDue
<1>5. ASSUME NEW t \in Types, Take(t) PROVE Base'
  BY <1>5 DEF Take
<1>6. CASE Send
  <2>1. resourceChannel' \in Seq(Types) /\ Len(resourceChannel') <= ChanCap
    BY <1>6 DEF Send
  <2> QED
    BY <1>6, <2>1 DEF Send
<1>7. CASE StartWatcher
  BY <1>7 DEF StartWatcher
<1>8. CASE StartWatcherFatal
  BY <1>8 DEF StartWatcherFatal
<1>9. CASE EndPoll
  BY <1>9 DEF EndPoll
<1>10. CASE StopPolling
  BY <1>10 DEF StopPolling
<1>11. CASE Receive
  BY <1>11 DEF Receive
<1>12. CASE SetupController
  BY <1>12 DEF SetupController
<1>13. CASE SetupScanner
  BY <1>13 DEF SetupScanner
<1>14. CASE SetupError
  BY <1>14 DEF SetupError
<1>15. CASE UNCHANGED vars
  BY <1>15 DEF vars
<1> QED
  BY <1>1, <1>2, <1>3, <1>4, <1>5, <1>6, <1>7, <1>8, <1>9, <1>10, <1>11, <1>12,
     <1>13, <1>14, <1>15 DEF Next, Poll, Consume

LEMMA BaseInvariant == Spec => []Base
<1>1. Init => Base
  <2> SUFFICES ASSUME Init PROVE Base
    OBVIOUS
  <2>1. resourceChannel \in Seq(Types) /\ Len(resourceChannel) <= ChanCap
    BY CapAssumption DEF Init
  <2>2. TypeOK
    <3>1. changes \in 0 .. MaxChanges
      BY ChangesAssumption DEF Init
    <3> QED
      BY <2>1, <3>1, Zenon DEF Init, TypeOK
  <2>3. Hands /\ LookedAtIsTracked /\ FlagImpliesTracked /\ QuotaWatchFollows
    BY DEF Init, Hands, LookedAtIsTracked, FlagImpliesTracked, QuotaWatchFollows
  <2> QED
    BY <2>2, <2>3 DEF Base
<1> QED
  BY <1>1, BaseStep, PTL DEF Spec

(* Every variable stays of its type; the channel never exceeds its         *)
(* capacity.                                                               *)
THEOREM TypeCorrect == Spec => []TypeOK
<1>1. Base => TypeOK
  BY DEF Base
<1> QED
  BY <1>1, BaseInvariant, PTL

(* OPAInstalled and ScannerInstalled are never ahead of the tracking of    *)
(* their types, although a poll stores them after its loop and discovery   *)
(* may be partial.                                                         *)
THEOREM FlagImpliesTrackedTheorem == Spec => []FlagImpliesTracked
<1>1. Base => FlagImpliesTracked
  BY DEF Base
<1> QED
  BY <1>1, BaseInvariant, PTL

(* Every tracked type with a calculator is watched for ProjectQuotas,      *)
(* except while the poller has it in hand.                                 *)
THEOREM QuotaWatchFollowsTheorem == Spec => []QuotaWatchFollows
<1>1. Base => QuotaWatchFollows
  BY DEF Base
<1> QED
  BY <1>1, BaseInvariant, PTL

-----------------------------------------------------------------------------
IInv == Base /\ Apart /\ HandedOverOnce

(* The places of the types are finite. *)
LEMMA PlacesFinite ==
    ASSUME Base
    PROVE  /\ IsFiniteSet(resourceTracker) /\ IsFiniteSet(controllers)
           /\ IsFiniteSet(BeingSent) /\ IsFiniteSet(BeingSetUp)
<1>1. /\ resourceTracker \subseteq Types /\ controllers \subseteq Types
      /\ BeingSent \subseteq Types /\ BeingSetUp \subseteq Types
  BY TypesAssumption DEF Base, TypeOK, Hands, BeingSent, BeingSetUp
<1> QED
  BY <1>1, TypesAssumption, FS_Subset

(* A step that leaves every place alone. *)
LEMMA PlacesKept ==
    ASSUME IInv, UNCHANGED <<resourceTracker, resourceChannel, controllers>>,
           BeingSent' = BeingSent, BeingSetUp' = BeingSetUp,
           consumer' = "setup" => item' \notin controllers
    PROVE  Apart' /\ HandedOverOnce'
  BY DEF IInv, Apart, HandedOverOnce, InChannel

LEMMA HandOverStep == IInv /\ [Next]_vars => Apart' /\ HandedOverOnce'
<1> SUFFICES ASSUME IInv, [Next]_vars PROVE Apart' /\ HandedOverOnce'
  OBVIOUS
<1>b. Base /\ Base'
  BY BaseStep DEF IInv
<1>f. /\ IsFiniteSet(resourceTracker) /\ IsFiniteSet(controllers)
      /\ Cardinality(resourceTracker) \in Nat /\ Cardinality(controllers) \in Nat
  BY <1>b, PlacesFinite, FS_CardinalityType
<1>e. Cardinality({}) = 0 /\ \A t \in Types : Cardinality({t}) = 1
  BY FS_EmptySet, FS_Singleton
<1> USE TypesAssumption DEF envVars, pollVars, consVars
<1>1. CASE \/ \E t \in Types : ServeChange(t)
           \/ Cancel
           \/ \E S \in SUBSET Types : Discover(S)
           \/ DiscoverError \/ StartWatcher \/ EndPoll \/ StopPolling
           \/ UNCHANGED vars
  <2>1. /\ UNCHANGED <<resourceTracker, resourceChannel, consumer, item, controllers>>
        /\ BeingSent' = BeingSent
    BY <1>1 DEF ServeChange, Cancel, Discover, DiscoverError, PollDue, StartWatcher,
                EndPoll, StopPolling, BeingSent, vars
  <2> QED
    BY <2>1, PlacesKept DEF BeingSetUp, IInv, Apart
<1>2. ASSUME NEW t \in Types, Take(t), t \in Watchable \ resourceTracker
      PROVE  Apart' /\ HandedOverOnce'
  <2>1. /\ resourceTracker' = resourceTracker \cup {t}
        /\ BeingSent = {} /\ BeingSent' = {t}
        /\ UNCHANGED <<resourceChannel, consumer, item, controllers>>
    BY <1>2 DEF Take, BeingSent
  <2>2. Cardinality(resourceTracker') = Cardinality(resourceTracker) + 1
    BY <1>2, <1>f, <2>1, FS_AddElement
  <2>3. InChannel' = InChannel /\ BeingSetUp' = BeingSetUp
    BY <2>1 DEF InChannel, BeingSetUp
  <2>4. Apart'
    BY <1>2, <2>1, <2>3 DEF IInv, Apart, HandedOverOnce
  <2>5. Cardinality(BeingSetUp) \in Nat /\ Len(resourceChannel) \in Nat
    BY <1>b, PlacesFinite, FS_CardinalityType DEF Base, TypeOK
  <2>6. HandedOverOnce'
    BY <1>e, <1>f, <2>1, <2>2, <2>3, <2>5 DEF IInv, HandedOverOnce
  <2> QED
    BY <2>4, <2>6
<1>3. ASSUME NEW t \in Types, Take(t), t \notin Watchable \ resourceTracker
      PROVE  Apart' /\ HandedOverOnce'
  <2>1. UNCHANGED <<resourceTracker, resourceChannel, consumer, item, controllers, poller, hand>>
    BY <1>3 DEF Take
  <2> QED
    BY <2>1, PlacesKept DEF BeingSent, BeingSetUp, IInv, Apart
<1>4. CASE Send
  <2>1. /\ UNCHANGED <<resourceTracker, consumer, item, controllers>>
        /\ BeingSent = {hand} /\ BeingSent' = {}
        /\ hand \in Types
        /\ resourceChannel' = Append(resourceChannel, hand)
    BY <1>4, <1>b DEF Send, BeingSent, Base, Hands, TypeOK
  <2>2. /\ resourceChannel \in Seq(Types)
        /\ Len(resourceChannel') = Len(resourceChannel) + 1
        /\ Len(resourceChannel) \in Nat
        /\ \A i \in 1 .. Len(resourceChannel) : resourceChannel'[i] = resourceChannel[i]
        /\ resourceChannel'[Len(resourceChannel) + 1] = hand
    BY <1>b, <2>1 DEF Base, TypeOK
  <2>3. InChannel' = InChannel \cup {hand}
    BY <2>2 DEF InChannel
  <2>4. BeingSetUp' = BeingSetUp
    BY <2>1 DEF BeingSetUp
  <2>5. hand \notin InChannel \cup BeingSetUp \cup controllers
    BY <2>1 DEF IInv, Apart
  <2>6. \A i \in 1 .. Len(resourceChannel) : resourceChannel[i] # hand
    BY <2>5 DEF InChannel
  <2>7. \A i, j \in 1 .. Len(resourceChannel') :
            resourceChannel'[i] = resourceChannel'[j] => i = j
    BY <2>2, <2>6 DEF IInv, Apart
  <2>8. Apart'
    BY <2>1, <2>3, <2>4, <2>5, <2>7 DEF IInv, Apart
  <2>9. Cardinality(BeingSetUp) \in Nat
    BY <1>b, PlacesFinite, FS_CardinalityType
  <2>10. HandedOverOnce'
    BY <1>e, <1>f, <2>1, <2>2, <2>3, <2>4, <2>9 DEF IInv, HandedOverOnce
  <2> QED
    BY <2>8, <2>10
<1>5. CASE Receive
  <2>1. /\ UNCHANGED <<resourceTracker, poller, hand, controllers>>
        /\ item = None /\ item' = Head(resourceChannel)
        /\ consumer' = "setup"
        /\ resourceChannel # <<>>
        /\ resourceChannel' = Tail(resourceChannel)
    BY <1>5, <1>b DEF Receive, Base, Hands
  <2>2. /\ resourceChannel \in Seq(Types)
        /\ item' = resourceChannel[1] /\ item' \in Types
        /\ Len(resourceChannel) \in Nat /\ Len(resourceChannel) > 0
        /\ Len(resourceChannel') = Len(resourceChannel) - 1
        /\ \A i \in 1 .. Len(resourceChannel') : resourceChannel'[i] = resourceChannel[i + 1]
    BY <1>b, <2>1 DEF Base, TypeOK
  <2>3. InChannel = InChannel' \cup {item'}
    <3>1. \A i \in 1 .. Len(resourceChannel) : resourceChannel[i] \in InChannel' \cup {item'}
      <4> TAKE i \in 1 .. Len(resourceChannel)
      <4>1. CASE i = 1
        BY <2>2, <4>1
      <4>2. CASE i # 1
        <5>1. i - 1 \in 1 .. Len(resourceChannel') /\ resourceChannel'[i - 1] = resourceChannel[i]
          BY <2>2, <4>2
        <5> QED
          BY <5>1 DEF InChannel
      <4> QED
        BY <4>1, <4>2
    <3>2. InChannel' \subseteq InChannel
      BY <2>2 DEF InChannel
    <3>3. item' \in InChannel
      BY <2>2 DEF InChannel
    <3> QED
      BY <3>1, <3>2, <3>3 DEF InChannel
  <2>4. item' \notin InChannel'
    <3> SUFFICES ASSUME NEW i \in 1 .. Len(resourceChannel'), resourceChannel'[i] = item'
                 PROVE  FALSE
      BY DEF InChannel
    <3>1. /\ i + 1 \in 1 .. Len(resourceChannel) /\ 1 \in 1 .. Len(resourceChannel)
          /\ i + 1 # 1
          /\ resourceChannel[i + 1] = resourceChannel[1]
      BY <2>2
    <3> QED
      BY <3>1 DEF IInv, Apart
  <2>5. item' \notin controllers
    BY <2>3 DEF IInv, Apart
  <2>6. BeingSetUp = {} /\ BeingSetUp' = {item'} /\ BeingSent' = BeingSent
    BY <2>1, <2>2, <2>5 DEF BeingSetUp, BeingSent
  <2>7. \A i, j \in 1 .. Len(resourceChannel') :
            resourceChannel'[i] = resourceChannel'[j] => i = j
    <3> SUFFICES ASSUME NEW i \in 1 .. Len(resourceChannel'),
                        NEW j \in 1 .. Len(resourceChannel'),
                        resourceChannel'[i] = resourceChannel'[j]
                 PROVE  i = j
      OBVIOUS
    <3>1. /\ i + 1 \in 1 .. Len(resourceChannel) /\ j + 1 \in 1 .. Len(resourceChannel)
          /\ resourceChannel[i + 1] = resourceChannel[j + 1]
      BY <2>2
    <3>2. i + 1 = j + 1
      BY <3>1 DEF IInv, Apart
    <3> QED
      BY <3>2
  <2>8. Apart'
    BY <2>1, <2>3, <2>4, <2>5, <2>6, <2>7 DEF IInv, Apart
  <2>9. Cardinality(BeingSent) \in Nat
    BY <1>b, PlacesFinite, FS_CardinalityType
  <2>10. HandedOverOnce'
    BY <1>e, <1>f, <2>1, <2>2, <2>3, <2>6, <2>9 DEF IInv, HandedOverOnce
  <2> QED
    BY <2>8, <2>10
<1>6. CASE SetupController
  <2>1. /\ UNCHANGED <<resourceTracker, resourceChannel, poller, hand>>
        /\ item \in Types /\ item \notin controllers
        /\ controllers' = controllers \cup {item}
        /\ consumer = "setup" /\ consumer' # "setup"
        /\ BeingSetUp = {item} /\ BeingSetUp' = {}
    BY <1>6, <1>b DEF SetupController, Base, Hands, BeingSetUp
  <2>2. InChannel' = InChannel /\ BeingSent' = BeingSent
    BY <2>1 DEF InChannel, BeingSent
  <2>3. Cardinality(controllers') = Cardinality(controllers) + 1
    BY <1>f, <2>1, FS_AddElement
  <2>4. Apart'
    BY <2>1, <2>2 DEF IInv, Apart
  <2>5. Cardinality(BeingSent) \in Nat /\ Len(resourceChannel) \in Nat
    BY <1>b, PlacesFinite, FS_CardinalityType DEF Base, TypeOK
  <2>6. HandedOverOnce'
    BY <1>e, <1>f, <2>1, <2>2, <2>3, <2>5 DEF IInv, HandedOverOnce
  <2> QED
    BY <2>4, <2>6
<1>7. CASE SetupScanner \/ SetupError \/ StartWatcherFatal
  <2>1. /\ UNCHANGED <<resourceTracker, resourceChannel, controllers>>
        /\ BeingSent' = BeingSent
        /\ consumer' # "setup"
    BY <1>7 DEF SetupScanner, SetupError, StartWatcherFatal, BeingSent
  <2>2. BeingSetUp' = BeingSetUp
    BY <1>7, <1>b DEF SetupScanner, SetupError, StartWatcherFatal, BeingSetUp, Base, Hands
  <2> QED
    BY <2>1, <2>2, PlacesKept
<1> QED
  BY <1>1, <1>2, <1>3, <1>4, <1>5, <1>6, <1>7 DEF Next, Poll, Consume

(* Whatever the discovery returns, however small the channel and whenever  *)
(* the manager stops: a tracked type is in exactly one of the poller's     *)
(* hand, the channel, the consumer's hand and the set of controllers.      *)
THEOREM HandedOverOnceTheorem == Spec => []HandedOverOnce
<1>1. Init => Apart /\ HandedOverOnce
  <2> SUFFICES ASSUME Init PROVE Apart /\ HandedOverOnce
    OBVIOUS
  <2>1. Len(resourceChannel) = 0 /\ 1 .. 0 = {}
    BY DEF Init
  <2>2. InChannel = {} /\ BeingSent = {} /\ BeingSetUp = {}
    BY <2>1 DEF Init, InChannel, BeingSent, BeingSetUp
  <2>3. Cardinality({}) = 0
    BY FS_EmptySet
  <2> QED
    BY <2>1, <2>2, <2>3 DEF Init, Apart, HandedOverOnce
<1>2. Apart /\ HandedOverOnce /\ Base /\ [Next]_vars => Apart' /\ HandedOverOnce'
  BY HandOverStep DEF IInv
<1> QED
  BY <1>1, <1>2, BaseInvariant, PTL DEF Spec
=============================================================================
