-------------------------- MODULE ChatServerProofs --------------------------
(***************************************************************************)
(* The inductive invariant of ChatServer, for any number of clients,       *)
(* loaders and requests and any queue limit.                               *)
(***************************************************************************)
EXTENDS ChatServer, SequenceTheorems, TLAPS

(* The tickets on the queue are consecutive, the last one drawn is last.    *)
Called == nextTicket - Len(queue)
QueueInv ==
  /\ Called \in Nat /\ Len(queue) <= QueueLimit
  /\ \A i \in 1 .. Len(queue) : queue[i] = Called + i

(* The sleepers are the clients at cv_.wait, each with a waiting ticket of  *)
(* its own.                                                                 *)
SleepInv ==
  /\ \A c \in Clients : c \in asleep <=> pc[c] = "asleep"
  /\ \A c \in asleep : ticket[c] \in Called + 1 .. nextTicket
  /\ \A c, d \in asleep : ticket[c] = ticket[d] => c = d

(* busy_ says that there is a lease, there is at most one, and it is that   *)
(* of the ticket called last.                                               *)
LeaseInv ==
  /\ busy <=> \E c \in Clients : Holder(c)
  /\ \A c \in Clients : Holder(c) => ticket[c] = Called /\ ticket[c] > 0
  /\ \A c, d \in Clients : Holder(c) /\ Holder(d) => c = d

(* generate_mutex_ is held by whoever is between taking and leaving it.     *)
LockInv ==
  /\ \A c \in Clients :
       pc[c] \in {"locked", "ready", "pass", "between", "unlock"} => genLock = c
  /\ \A l \in Loaders : pc[l] # "idle" => genLock = l

IInv == TypeOK /\ QueueInv /\ SleepInv /\ LeaseInv /\ LockInv /\ WorkingRunnerStays

USE DEF Goto, ClientPlaces, LoaderPlaces, Holder, Generating

-----------------------------------------------------------------------------
(* A sleeper's ticket is on the queue, so the queue is not empty.           *)
LEMMA SleepersQueue ==
  TypeOK /\ QueueInv /\ SleepInv /\ asleep # {} => queue # <<>>
BY DEF TypeOK, CoordTypeOK, QueueInv, SleepInv, Called

LEMMA TypeInit == Init => TypeOK
<1>. SUFFICES ASSUME Init PROVE TypeOK
  OBVIOUS
<1>1. CoordTypeOK
  <2>1. <<>> \in Seq(Nat) /\ asleep = {} /\ notified = {}
    BY DEF Init, CoordInit
  <2>. QED
    BY <2>1 DEF Init, CoordInit, CoordTypeOK
<1>2. runner \in Runners \cup {NoRunner}
  BY DEF Init, Runners
<1>. QED
  BY <1>1, <1>2, ServerAssumption DEF Init, TypeOK

(* What an action does to the coordinator keeps its types.                  *)
LEMMA CoordTypes ==
  ASSUME CoordTypeOK, NEW c \in Clients,
         \/ Enter(c)
         \/ WakeTakes(c) /\ queue # <<>>
         \/ WakeSleepsAgain(c) \/ SpuriousWake(c) \/ Release \/ UNCHANGED coordVars
  PROVE  CoordTypeOK'
<1>1. CASE Enter(c)
  <2>1. nextTicket + 1 \in Nat /\ Append(queue, nextTicket + 1) \in Seq(Nat)
    BY DEF CoordTypeOK
  <2>. QED
    BY <1>1, <2>1 DEF Enter, CoordTypeOK
<1>2. CASE WakeTakes(c) /\ queue # <<>>
  <2>1. Tail(queue) \in Seq(Nat)
    BY <1>2, HeadTailProperties DEF CoordTypeOK
  <2>. QED
    BY <1>2, <2>1 DEF WakeTakes, CoordTypeOK
<1>3. CASE WakeSleepsAgain(c)
  BY <1>3 DEF WakeSleepsAgain, CoordTypeOK
<1>4. CASE SpuriousWake(c)
  BY <1>4 DEF SpuriousWake, CoordTypeOK
<1>5. CASE Release
  BY <1>5 DEF Release, CoordTypeOK
<1>6. CASE UNCHANGED coordVars
  BY <1>6 DEF coordVars, CoordTypeOK
<1>. QED
  BY <1>1, <1>2, <1>3, <1>4, <1>5, <1>6

LEMMA TypeStep == TypeOK /\ QueueInv /\ SleepInv /\ [Next]_vars => TypeOK'
<1>. SUFFICES ASSUME TypeOK, QueueInv, SleepInv, [Next]_vars PROVE TypeOK'
  OBVIOUS
<1>. USE DEF TypeOK
<1>1. ASSUME NEW c \in Clients, Request(c) PROVE TypeOK'
  BY <1>1, CoordTypes, ServerAssumption DEF Request, clientVars, loaderVars, configVars
<1>2. ASSUME NEW c \in Clients, TurnedAway(c) PROVE TypeOK'
  BY <1>2, CoordTypes, ServerAssumption DEF TurnedAway, clientVars, loaderVars, configVars
<1>3. ASSUME NEW c \in Clients, Acquire(c) PROVE TypeOK'
  BY <1>3, CoordTypes, ServerAssumption DEF Acquire, clientVars, loaderVars, configVars
<1>4. ASSUME NEW c \in Clients, Wake(c) PROVE TypeOK'
  <2>1. asleep # {} => queue # <<>>
    BY SleepersQueue
  <2>2. CoordTypeOK'
    BY <1>4, <2>1, CoordTypes DEF Wake, WakeTakes, CoordTypeOK
  <2>. QED
    BY <1>4, <2>2, ServerAssumption DEF Wake, clientVars, loaderVars, configVars
<1>5. ASSUME NEW c \in Clients, LockGenerate(c) PROVE TypeOK'
  BY <1>5, CoordTypes, ServerAssumption DEF LockGenerate, clientVars, loaderVars, configVars
<1>6. ASSUME NEW c \in Clients, TakeRunner(c) PROVE TypeOK'
  BY <1>6, CoordTypes, ServerAssumption DEF TakeRunner, clientVars, loaderVars, configVars
<1>7. ASSUME NEW c \in Clients, StartGenerating(c) PROVE TypeOK'
  <2>1. CoordTypeOK'
    BY <1>7, CoordTypes DEF StartGenerating
  <2>2. tokens' \in [Clients -> Nat]
    BY <1>7, ServerAssumption DEF StartGenerating
  <2>3. cancel' \in BOOLEAN
    BY <1>7 DEF StartGenerating
  <2>. QED
    BY <1>7, <2>1, <2>2, <2>3, ServerAssumption DEF StartGenerating, loaderVars, configVars
<1>8. ASSUME NEW c \in Clients, PassDone(c) PROVE TypeOK'
  BY <1>8, CoordTypes, ServerAssumption DEF PassDone, clientVars, loaderVars, configVars
<1>9. ASSUME NEW c \in Clients, NextPass(c) PROVE TypeOK'
  BY <1>9, CoordTypes, ServerAssumption DEF NextPass, clientVars, loaderVars, configVars
<1>10. ASSUME NEW c \in Clients, GenerationEnds(c) PROVE TypeOK'
  BY <1>10, CoordTypes, ServerAssumption DEF GenerationEnds, clientVars, loaderVars, configVars
<1>11. ASSUME NEW c \in Clients, GenerationThrows(c) PROVE TypeOK'
  BY <1>11, CoordTypes, ServerAssumption DEF GenerationThrows, clientVars, loaderVars, configVars
<1>12. ASSUME NEW c \in Clients, UnlockGenerate(c) PROVE TypeOK'
  BY <1>12, CoordTypes, ServerAssumption DEF UnlockGenerate, clientVars, loaderVars, configVars
<1>13. ASSUME NEW c \in Clients, GiveLeaseBack(c) PROVE TypeOK'
  BY <1>13, CoordTypes, ServerAssumption DEF GiveLeaseBack, clientVars, loaderVars, configVars
<1>14. ASSUME NEW c \in Clients, Spurious(c) PROVE TypeOK'
  BY <1>14, CoordTypes, ServerAssumption DEF Spurious, clientVars, loaderVars, configVars
<1>15. ASSUME NEW l \in Loaders, TryLock(l) PROVE TypeOK'
  <2>1. CoordTypeOK'
    BY <1>15 DEF TryLock, coordVars, CoordTypeOK
  <2>. QED
    BY <1>15, <2>1, ServerAssumption DEF TryLock, clientVars, loaderVars, configVars
<1>16. ASSUME NEW l \in Loaders, LoaderStep(l) PROVE TypeOK'
  <2>1. CoordTypeOK'
    BY <1>16 DEF LoaderStep, Unload, Construct, Install, LoadFails, UnlockLoader, coordVars,
                 CoordTypeOK
  <2>2. CASE Construct(l)
    <3>1. [id |-> loads, context |-> contextLen, wanted |-> wanted] \in Runners
      BY DEF Runners
    <3>. QED
      BY <2>1, <2>2, <3>1, ServerAssumption DEF Construct, clientVars, configVars
  <2>. QED
    BY <1>16, <2>1, <2>2, ServerAssumption
    DEF LoaderStep, Unload, Install, LoadFails, UnlockLoader, clientVars, loaderVars, configVars
<1>17. ASSUME Stop \/ ResetKv \/ PostContext \/ UNCHANGED vars PROVE TypeOK'
  <2>1. CoordTypeOK'
    BY <1>17 DEF Stop, ResetKv, PostContext, vars, coordVars, CoordTypeOK
  <2>2. CASE Stop
    BY <2>1, <2>2 DEF Stop, clientVars, loaderVars, configVars
  <2>3. CASE ResetKv
    BY <2>1, <2>3 DEF ResetKv, clientVars, loaderVars, configVars
  <2>4. CASE PostContext
    BY <2>1, <2>4 DEF PostContext, clientVars, loaderVars
  <2>5. CASE UNCHANGED vars
    BY <2>1, <2>5 DEF vars, clientVars, loaderVars, configVars
  <2>. QED
    BY <1>17, <2>2, <2>3, <2>4, <2>5
<1>. QED
  BY <1>1, <1>2, <1>3, <1>4, <1>5, <1>6, <1>7, <1>8, <1>9, <1>10, <1>11, <1>12, <1>13, <1>14,
     <1>15, <1>16, <1>17 DEF Next, ClientStep

-----------------------------------------------------------------------------
CoordInv == QueueInv /\ SleepInv /\ LeaseInv

LEMMA CoordInitially == Init => CoordInv
<1>. SUFFICES ASSUME Init PROVE CoordInv
  OBVIOUS
<1>1. queue = <<>> /\ nextTicket = 0 /\ Len(queue) = 0 /\ busy = FALSE /\ asleep = {}
  BY DEF Init, CoordInit
<1>2. \A c \in Clients : pc[c] = "idle"
  BY DEF Init
<1>. QED
  BY <1>1, <1>2, CoordinatorAssumption DEF CoordInv, QueueInv, SleepInv, LeaseInv, Called

(* A step that leaves the coordinator alone and keeps every client on its   *)
(* side of acquire() and of the lease keeps the invariant.                  *)
LEMMA CoordQuiet ==
  ASSUME CoordInv, UNCHANGED <<queue, nextTicket, busy, ticket, asleep>>,
         \A c \in Clients : (Holder(c))' = Holder(c) /\ (pc'[c] = "asleep" <=> pc[c] = "asleep")
  PROVE  CoordInv'
<1>1. QueueInv' /\ Called' = Called
  BY DEF CoordInv, QueueInv, Called
<1>2. SleepInv'
  BY <1>1 DEF CoordInv, SleepInv
<1>3. LeaseInv'
  BY <1>1 DEF CoordInv, LeaseInv
<1>. QED
  BY <1>1, <1>2, <1>3 DEF CoordInv

(* A client that takes the lease at once, or queues.                        *)
LEMMA CoordAcquire ==
  ASSUME TypeOK, CoordInv, NEW c \in Clients, Acquire(c)
  PROVE  CoordInv'
<1>. DEFINE new == nextTicket + 1
<1>1. /\ pc \in [Clients \cup Loaders -> ClientPlaces \cup LoaderPlaces] /\ queue \in Seq(Nat)
      /\ nextTicket \in Nat /\ ticket \in [Clients -> Nat] /\ asleep \subseteq Clients
      /\ Len(queue) \in Nat /\ busy \in BOOLEAN
  BY DEF TypeOK, CoordTypeOK
<1>2. /\ pc[c] = "acquire" /\ c \notin asleep /\ Len(queue) < QueueLimit
      /\ nextTicket' = new /\ ticket' = [ticket EXCEPT ![c] = new]
  BY <1>1, CoordinatorAssumption DEF Acquire, Enter, Full, CoordInv, SleepInv
<1>3. CASE ~busy /\ queue = <<>>
  <2>1. busy' /\ queue' = <<>> /\ asleep' = asleep /\ pc' = [pc EXCEPT ![c] = "leased"]
    BY <1>2, <1>3 DEF Acquire, Enter
  <2>2. Called' = new /\ Called = nextTicket /\ asleep = {} /\ Len(queue') = 0
    <3>1. Len(queue) = 0 /\ Len(queue') = 0
      BY <1>3, <2>1
    <3>2. asleep = {}
      BY <1>3, SleepersQueue DEF CoordInv
    <3>. QED
      BY <1>1, <1>2, <3>1, <3>2 DEF Called
  <2>3. QueueInv'
    BY <1>1, <2>2, CoordinatorAssumption DEF QueueInv
  <2>4. SleepInv'
    BY <1>1, <1>2, <2>1, <2>2 DEF SleepInv, CoordInv
  <2>5. LeaseInv'
    BY <1>1, <1>2, <1>3, <2>1, <2>2 DEF LeaseInv, CoordInv
  <2>. QED
    BY <2>3, <2>4, <2>5 DEF CoordInv
<1>4. CASE ~(~busy /\ queue = <<>>)
  <2>1. /\ queue' = Append(queue, new) /\ asleep' = asleep \cup {c} /\ busy' = busy
        /\ pc' = [pc EXCEPT ![c] = "asleep"]
    BY <1>2, <1>4 DEF Acquire, Enter
  <2>2. /\ Len(queue') = Len(queue) + 1 /\ queue'[Len(queue) + 1] = new
        /\ \A i \in 1 .. Len(queue) : queue'[i] = queue[i]
    BY <1>1, <2>1
  <2>3. Called' = Called /\ Called \in Nat /\ nextTicket = Called + Len(queue)
    BY <1>1, <1>2, <2>2 DEF Called, CoordInv, QueueInv
  <2>4. QueueInv'
    <3>1. Len(queue') <= QueueLimit
      BY <1>1, <1>2, <2>2, CoordinatorAssumption
    <3>2. ASSUME NEW i \in 1 .. Len(queue') PROVE queue'[i] = Called + i
      <4>1. CASE i = Len(queue) + 1
        BY <1>1, <2>2, <2>3, <4>1
      <4>2. CASE i \in 1 .. Len(queue)
        BY <2>2, <4>2 DEF QueueInv, CoordInv
      <4>. QED
        BY <1>1, <2>2, <4>1, <4>2
    <3>. QED
      BY <2>3, <3>1, <3>2 DEF QueueInv
  <2>5. SleepInv'
    BY <1>1, <1>2, <2>1, <2>3 DEF SleepInv, CoordInv
  <2>6. LeaseInv'
    BY <1>1, <1>2, <2>1, <2>3 DEF LeaseInv, CoordInv
  <2>. QED
    BY <2>4, <2>5, <2>6 DEF CoordInv
<1>. QED
  BY <1>3, <1>4

(* A woken sleeper whose turn it is.                                        *)
LEMMA CoordTakes ==
  ASSUME TypeOK, CoordInv, NEW c \in Clients, pc[c] = "asleep", WakeTakes(c), Goto(c, "leased")
  PROVE  CoordInv'
<1>1. /\ pc \in [Clients \cup Loaders -> ClientPlaces \cup LoaderPlaces] /\ queue \in Seq(Nat)
      /\ nextTicket \in Nat /\ ticket \in [Clients -> Nat] /\ asleep \subseteq Clients
      /\ Len(queue) \in Nat /\ c \in asleep
  BY DEF TypeOK, CoordTypeOK, WakeTakes
<1>2. queue # <<>>
  BY <1>1, SleepersQueue DEF CoordInv
<1>3. /\ queue' = Tail(queue) /\ Len(queue') = Len(queue) - 1 /\ Len(queue) > 0
      /\ \A i \in 1 .. Len(queue) - 1 : queue'[i] = queue[i + 1]
      /\ Head(queue) = queue[1]
  BY <1>1, <1>2, HeadTailProperties DEF WakeTakes
<1>4. /\ ~busy /\ busy' /\ ticket[c] = Called + 1 /\ nextTicket' = nextTicket /\ ticket' = ticket
      /\ asleep' = asleep \ {c} /\ pc' = [pc EXCEPT ![c] = "leased"]
  BY <1>1, <1>3 DEF WakeTakes, MyTurn, CoordInv, QueueInv
<1>5. Called' = Called + 1 /\ Called \in Nat
  <2>1. Called \in Nat
    BY DEF CoordInv, QueueInv
  <2>2. Called = nextTicket - Len(queue) /\ Called' = nextTicket' - Len(queue')
    BY DEF Called
  <2>. QED
    BY <1>1, <1>3, <1>4, <2>1, <2>2
<1>6. QueueInv'
  BY <1>1, <1>3, <1>4, <1>5, CoordinatorAssumption DEF CoordInv, QueueInv
<1>7. SleepInv'
  BY <1>1, <1>4, <1>5 DEF CoordInv, SleepInv
<1>8. LeaseInv'
  BY <1>1, <1>4, <1>5 DEF CoordInv, LeaseInv
<1>. QED
  BY <1>6, <1>7, <1>8 DEF CoordInv

(* The lease is given back.                                                 *)
LEMMA CoordReleases ==
  ASSUME TypeOK, CoordInv, NEW c \in Clients, GiveLeaseBack(c)
  PROVE  CoordInv'
<1>1. /\ pc \in [Clients \cup Loaders -> ClientPlaces \cup LoaderPlaces] /\ pc[c] = "release"
      /\ pc' = [pc EXCEPT ![c] = "idle"] /\ ~busy'
      /\ UNCHANGED <<queue, nextTicket, ticket, asleep>>
  BY DEF TypeOK, GiveLeaseBack, Release
<1>2. QueueInv' /\ Called' = Called
  BY <1>1 DEF CoordInv, QueueInv, Called
<1>3. SleepInv'
  BY <1>1, <1>2 DEF CoordInv, SleepInv
<1>4. LeaseInv'
  BY <1>1, <1>2 DEF CoordInv, LeaseInv
<1>. QED
  BY <1>2, <1>3, <1>4 DEF CoordInv

LEMMA CoordStep == TypeOK /\ CoordInv /\ [Next]_vars => CoordInv'
<1>. SUFFICES ASSUME TypeOK, CoordInv, [Next]_vars PROVE CoordInv'
  OBVIOUS
<1>1. pc \in [Clients \cup Loaders -> ClientPlaces \cup LoaderPlaces] /\ Clients \cap Loaders = {}
  BY ServerAssumption DEF TypeOK
<1>2. ASSUME NEW c \in Clients, Request(c) \/ ClientStep(c) PROVE CoordInv'
  <2>1. CASE Acquire(c)
    BY <2>1, CoordAcquire
  <2>2. CASE Wake(c)
    <3>1. CASE WakeTakes(c) /\ Goto(c, "leased")
      BY <2>2, <3>1, CoordTakes DEF Wake
    <3>2. CASE WakeSleepsAgain(c) /\ UNCHANGED pc
      BY <3>2, CoordQuiet DEF WakeSleepsAgain
    <3>. QED
      BY <2>2, <3>1, <3>2 DEF Wake
  <2>3. CASE GiveLeaseBack(c)
    BY <2>3, CoordReleases
  <2>4. CASE Request(c)
    BY <1>1, <2>4, CoordQuiet DEF Request, coordVars
  <2>5. CASE TurnedAway(c)
    BY <1>1, <2>5, CoordQuiet DEF TurnedAway, coordVars
  <2>6. CASE LockGenerate(c)
    BY <1>1, <2>6, CoordQuiet DEF LockGenerate, coordVars
  <2>7. CASE TakeRunner(c)
    BY <1>1, <2>7, CoordQuiet DEF TakeRunner, coordVars
  <2>8. CASE StartGenerating(c)
    BY <1>1, <2>8, CoordQuiet DEF StartGenerating, coordVars
  <2>9. CASE PassDone(c)
    BY <1>1, <2>9, CoordQuiet DEF PassDone, coordVars
  <2>10. CASE NextPass(c)
    BY <1>1, <2>10, CoordQuiet DEF NextPass, coordVars
  <2>11. CASE GenerationEnds(c)
    BY <1>1, <2>11, CoordQuiet DEF GenerationEnds, coordVars
  <2>12. CASE UnlockGenerate(c)
    BY <1>1, <2>12, CoordQuiet DEF UnlockGenerate, coordVars
  <2>. QED
    BY <1>2, <2>1, <2>2, <2>3, <2>4, <2>5, <2>6, <2>7, <2>8, <2>9, <2>10, <2>11, <2>12 DEF ClientStep
<1>3. ASSUME NEW c \in Clients, GenerationThrows(c) \/ Spurious(c) PROVE CoordInv'
  BY <1>3, CoordQuiet DEF GenerationThrows, Spurious, SpuriousWake, coordVars
<1>4. ASSUME NEW l \in Loaders, TryLock(l) \/ LoaderStep(l) PROVE CoordInv'
  <2>1. UNCHANGED coordVars /\ \A c \in Clients : pc'[c] = pc[c]
    BY <1>1, <1>4
    DEF TryLock, LoaderStep, Unload, Construct, Install, LoadFails, UnlockLoader
  <2>. QED
    BY <2>1, CoordQuiet DEF coordVars
<1>5. CASE Stop \/ ResetKv \/ PostContext \/ UNCHANGED vars
  BY <1>5, CoordQuiet DEF Stop, ResetKv, PostContext, vars, coordVars
<1>. QED
  BY <1>2, <1>3, <1>4, <1>5 DEF Next
-----------------------------------------------------------------------------
(* Clients: taking, keeping and leaving generate_mutex_.  Loaders likewise; *)
(* whoever does not hold it is at none of these places.                     *)
LEMMA LockStep == TypeOK /\ LockInv /\ [Next]_vars => LockInv'
<1>. SUFFICES ASSUME TypeOK, LockInv, [Next]_vars PROVE LockInv'
  OBVIOUS
<1>1. /\ pc \in [Clients \cup Loaders -> ClientPlaces \cup LoaderPlaces]
      /\ \A l \in Loaders : pc[l] \in LoaderPlaces
      /\ Clients \cap Loaders = {} /\ NoOne \notin Clients \cup Loaders
  BY ServerAssumption DEF TypeOK
<1>2. ASSUME NEW c \in Clients, Request(c) \/ ClientStep(c) \/ GenerationThrows(c) \/ Spurious(c)
      PROVE  LockInv'
  <2>1. CASE Request(c)
    BY <1>1, <2>1 DEF Request, LockInv
  <2>2. CASE TurnedAway(c)
    BY <1>1, <2>2 DEF TurnedAway, LockInv
  <2>3. CASE Acquire(c)
    BY <1>1, <2>3 DEF Acquire, LockInv
  <2>4. CASE Wake(c)
    BY <1>1, <2>4 DEF Wake, LockInv
  <2>5. CASE LockGenerate(c)
    BY <1>1, <2>5 DEF LockGenerate, LockInv
  <2>6. CASE TakeRunner(c)
    BY <1>1, <2>6 DEF TakeRunner, LockInv
  <2>7. CASE StartGenerating(c)
    BY <1>1, <2>7 DEF StartGenerating, LockInv
  <2>8. CASE PassDone(c)
    BY <1>1, <2>8 DEF PassDone, LockInv
  <2>9. CASE NextPass(c)
    BY <1>1, <2>9 DEF NextPass, LockInv
  <2>10. CASE GenerationEnds(c)
    BY <1>1, <2>10 DEF GenerationEnds, LockInv
  <2>11. CASE UnlockGenerate(c)
    BY <1>1, <2>11 DEF UnlockGenerate, LockInv
  <2>12. CASE GiveLeaseBack(c)
    BY <1>1, <2>12 DEF GiveLeaseBack, LockInv
  <2>13. CASE GenerationThrows(c)
    BY <1>1, <2>13 DEF GenerationThrows, LockInv
  <2>14. CASE Spurious(c)
    BY <1>1, <2>14 DEF Spurious, LockInv
  <2>. QED
    BY <1>2, <2>1, <2>2, <2>3, <2>4, <2>5, <2>6, <2>7, <2>8,
       <2>9, <2>10, <2>11, <2>12, <2>13, <2>14 DEF ClientStep
<1>3. ASSUME NEW l \in Loaders, TryLock(l) \/ LoaderStep(l) PROVE LockInv'
  <2>1. CASE TryLock(l)
    BY <1>1, <2>1 DEF TryLock, LockInv
  <2>2. CASE UnlockLoader(l)
    BY <1>1, <2>2 DEF UnlockLoader, LockInv
  <2>3. CASE Unload(l) \/ Construct(l) \/ Install(l) \/ LoadFails(l)
    BY <1>1, <2>3 DEF Unload, Construct, Install, LoadFails, LockInv
  <2>. QED
    BY <1>3, <2>1, <2>2, <2>3 DEF LoaderStep
<1>4. CASE Stop \/ ResetKv \/ PostContext \/ UNCHANGED vars
  BY <1>4 DEF Stop, ResetKv, PostContext, vars, LockInv
<1>. QED
  BY <1>2, <1>3, <1>4 DEF Next

(* Only a loader that holds generate_mutex_ changes the runner, and then no *)
(* client is generating.                                                    *)
LEMMA RunnerStep == TypeOK /\ LockInv /\ WorkingRunnerStays /\ [Next]_vars => WorkingRunnerStays'
<1>. SUFFICES ASSUME TypeOK, LockInv, WorkingRunnerStays, [Next]_vars,
                     NEW d \in Clients, (Generating(d))'
              PROVE  using'[d] = runner'
  BY DEF WorkingRunnerStays
<1>1. /\ pc \in [Clients \cup Loaders -> ClientPlaces \cup LoaderPlaces]
      /\ using \in [Clients -> Runners \cup {NoRunner}]
      /\ Clients \cap Loaders = {}
  BY ServerAssumption DEF TypeOK
<1>2. ASSUME NEW c \in Clients, TakeRunner(c) PROVE using'[d] = runner'
  BY <1>1, <1>2 DEF TakeRunner, WorkingRunnerStays
<1>3. ASSUME NEW c \in Clients, UnlockGenerate(c) PROVE using'[d] = runner'
  BY <1>1, <1>3 DEF UnlockGenerate, WorkingRunnerStays
<1>4. ASSUME NEW c \in Clients,
             Request(c) \/ (ClientStep(c) /\ ~TakeRunner(c) /\ ~UnlockGenerate(c))
             \/ GenerationThrows(c) \/ Spurious(c)
      PROVE  using'[d] = runner'
  <2>1. using' = using /\ runner' = runner
    BY <1>4 DEF Request, ClientStep, TurnedAway, Acquire, Wake, LockGenerate, StartGenerating,
                PassDone, NextPass, GenerationEnds, GiveLeaseBack, GenerationThrows, Spurious,
                clientVars
  <2>2. Generating(d)
    BY <1>1, <1>4 DEF Request, ClientStep, TurnedAway, Acquire, Wake, LockGenerate,
                StartGenerating, PassDone, NextPass, GenerationEnds, GiveLeaseBack,
                GenerationThrows, Spurious
  <2>. QED
    BY <2>1, <2>2 DEF WorkingRunnerStays
<1>5. ASSUME NEW l \in Loaders, TryLock(l) \/ LoaderStep(l) PROVE using'[d] = runner'
  <2>1. pc'[d] = pc[d] /\ using' = using
    BY <1>1, <1>5 DEF TryLock, LoaderStep, Unload, Construct, Install, LoadFails, UnlockLoader,
                      clientVars
  <2>2. genLock = d
    BY <1>1, <2>1 DEF LockInv
  <2>3. runner' = runner
    BY <1>1, <1>5, <2>2 DEF TryLock, LoaderStep, Unload, Construct, Install, LoadFails,
                            UnlockLoader, LockInv
  <2>. QED
    BY <2>1, <2>3 DEF WorkingRunnerStays
<1>6. CASE Stop \/ ResetKv \/ PostContext \/ UNCHANGED vars
  BY <1>6 DEF Stop, ResetKv, PostContext, vars, clientVars, WorkingRunnerStays
<1>. QED
  BY <1>2, <1>3, <1>4, <1>5, <1>6 DEF Next

LEMMA Invariance == Spec => []IInv
<1>1. Init => IInv
  <2>1. Init => LockInv /\ WorkingRunnerStays
    BY ServerAssumption DEF Init, LockInv, WorkingRunnerStays
  <2>. QED
    BY <2>1, TypeInit, CoordInitially DEF IInv, CoordInv
<1>2. IInv /\ [Next]_vars => IInv'
  BY TypeStep, CoordStep, LockStep, RunnerStep DEF IInv, CoordInv
<1>. QED
  BY <1>1, <1>2, PTL DEF Spec

-----------------------------------------------------------------------------
(* The safety properties, from the inductive invariant, and the refinement *)
(* of TicketGate.                                                          *)
HIDE DEF ClientPlaces, LoaderPlaces, Generating

(* The types of the server's state (src/include/g4dense/server.hpp:57-117). *)
THEOREM TypeCorrect == Spec => []TypeOK
BY Invariance, PTL DEF IInv

(* No load or unload takes the runner from under a generation               *)
(* (src/src/server.cpp:67-72 against 919-998).                              *)
THEOREM WorkingRunnerCorrect == Spec => []WorkingRunnerStays
BY Invariance, PTL DEF IInv

(* A stop stands until the generation it stops has ended: the only action   *)
(* that clears the flag belongs to another holder of the lease, and there   *)
(* is none (src/src/server.cpp:964).                                        *)
THEOREM StopCorrect == Spec => StopIsHeard
<1>1. IInv /\ [Next]_vars =>
        [\A c \in Clients : pc[c] \in {"pass", "between"} /\ pc'[c] \in {"pass", "between"}
           /\ cancel => cancel']_vars
  <2>. SUFFICES ASSUME IInv, Next, NEW c \in Clients, pc[c] \in {"pass", "between"}, cancel
                PROVE  cancel'
    OBVIOUS
  <2>1. ASSUME NEW d \in Clients, StartGenerating(d) PROVE FALSE
    <3>1. pc[d] = "ready" /\ Holder(d) /\ Holder(c)
      BY <2>1 DEF StartGenerating
    <3>2. c = d
      BY <3>1 DEF IInv, LeaseInv
    <3>. QED
      BY <3>1, <3>2
  <2>2. ASSUME NEW d \in Clients,
               Request(d) \/ ClientStep(d) \/ GenerationThrows(d) \/ Spurious(d)
        PROVE  cancel' = cancel
    BY <2>1, <2>2 DEF Request, ClientStep, TurnedAway, Acquire, Wake, LockGenerate, TakeRunner,
                PassDone, NextPass, GenerationEnds, UnlockGenerate, GiveLeaseBack,
                GenerationThrows, Spurious
  <2>3. ASSUME NEW l \in Loaders, TryLock(l) \/ LoaderStep(l) PROVE cancel' = cancel
    BY <2>3 DEF TryLock, LoaderStep, Unload, Construct, Install, LoadFails, UnlockLoader
  <2>4. CASE Stop
    BY <2>4 DEF Stop
  <2>5. CASE ResetKv \/ PostContext
    BY <2>5 DEF ResetKv, PostContext
  <2>. QED
    BY <2>2, <2>3, <2>4, <2>5 DEF Next
<1>. QED
  BY <1>1, Invariance, PTL DEF Spec, StopIsHeard

-----------------------------------------------------------------------------
(* The lease as the gate sees it: whoever is inside holds the ticket called *)
(* last.                                                                    *)
LastCalledInside ==
  /\ Inside = IF busy THEN Called ELSE 0
  /\ busy => Called > 0

LEMMA InsideIs == IInv => LastCalledInside
<1>. SUFFICES ASSUME IInv PROVE LastCalledInside
  BY DEF LastCalledInside
<1>. USE DEF LastCalledInside
<1>1. CASE busy
  <2>1. PICK c \in Clients : Holder(c)
    BY <1>1 DEF IInv, LeaseInv
  <2>. DEFINE d == CHOOSE x \in Clients : Holder(x)
  <2>2. d \in Clients /\ Holder(d)
    BY <2>1
  <2>3. Inside = ticket[d]
    BY <2>1 DEF Inside
  <2>. QED
    BY <1>1, <2>2, <2>3 DEF IInv, LeaseInv
<1>2. CASE ~busy
  BY <1>2 DEF IInv, LeaseInv, Inside
<1>. QED
  BY <1>1, <1>2

LEMMA GateStep == IInv /\ IInv' /\ [Next]_vars => [Gate!GateNext]_(Gate!gateVars)
<1>. SUFFICES ASSUME IInv, IInv', [Next]_vars PROVE [Gate!GateNext]_(Gate!gateVars)
  OBVIOUS
<1>1. /\ Inside = IF busy THEN Called ELSE 0
      /\ busy => Called > 0
  BY InsideIs DEF LastCalledInside
<1>. HIDE DEF LastCalledInside
<1>0. LastCalledInside'
  BY InsideIs, PTL
<1>2. /\ Inside' = IF busy' THEN Called' ELSE 0
      /\ busy' => Called' > 0
  BY <1>0 DEF LastCalledInside
<1>3. /\ queue \in Seq(Nat) /\ Len(queue) \in Nat /\ nextTicket \in Nat /\ Called \in Nat
      /\ Called = nextTicket - Len(queue) /\ Called' = nextTicket' - Len(queue')
  BY DEF IInv, TypeOK, CoordTypeOK, QueueInv, Called
<1>4. ASSUME UNCHANGED <<queue, nextTicket, busy>> PROVE UNCHANGED Gate!gateVars
  BY <1>1, <1>2, <1>3, <1>4 DEF Gate!gateVars
<1>5. ASSUME NEW c \in Clients, Acquire(c) PROVE Gate!GateNext
  <2>1. nextTicket' = nextTicket + 1 /\ Len(queue) < QueueLimit
    BY <1>3, <1>5, CoordinatorAssumption DEF Acquire, Enter, Full
  <2>2. CASE ~busy /\ queue = <<>>
    <3>1. busy' /\ queue' = queue /\ Len(queue) = 0
      BY <1>5, <2>2 DEF Acquire, Enter
    <3>2. Gate!DrawAndCall
      BY <1>1, <1>2, <1>3, <2>1, <2>2, <3>1 DEF Gate!DrawAndCall
    <3>. QED
      BY <3>2 DEF Gate!GateNext
  <2>3. CASE ~(~busy /\ queue = <<>>)
    <3>1. busy' = busy /\ queue' = Append(queue, nextTicket + 1)
      BY <1>5, <2>3 DEF Acquire, Enter
    <3>2. Len(queue') = Len(queue) + 1
      BY <1>3, <3>1
    <3>3. Called' = Called
      BY <1>3, <2>1, <3>2
    <3>4. Gate!Draw
      BY <1>1, <1>2, <1>3, <2>1, <3>1, <3>3, CoordinatorAssumption DEF Gate!Draw
    <3>. QED
      BY <3>4 DEF Gate!GateNext
  <2>. QED
    BY <2>2, <2>3
<1>6. ASSUME NEW c \in Clients, WakeTakes(c) PROVE Gate!GateNext
  <2>1. queue # <<>>
    BY <1>6, SleepersQueue DEF WakeTakes, IInv, TypeOK, CoordTypeOK
  <2>2. /\ Len(queue') = Len(queue) - 1 /\ Len(queue) > 0 /\ nextTicket' = nextTicket
        /\ ~busy /\ busy'
    BY <1>3, <1>6, <2>1, HeadTailProperties DEF WakeTakes, MyTurn
  <2>3. Called' = Called + 1
    BY <1>3, <2>2
  <2>4. Gate!Call
    BY <1>1, <1>2, <1>3, <2>2, <2>3 DEF Gate!Call
  <2>. QED
    BY <2>4 DEF Gate!GateNext
<1>7. ASSUME NEW c \in Clients, GiveLeaseBack(c) PROVE Gate!GateNext
  <2>1. busy /\ ~busy' /\ UNCHANGED <<queue, nextTicket>>
    BY <1>7 DEF GiveLeaseBack, Release, IInv, LeaseInv
  <2>2. Gate!GiveBack
    BY <1>1, <1>2, <1>3, <2>1 DEF Gate!GiveBack
  <2>. QED
    BY <2>2 DEF Gate!GateNext
<1>8. ASSUME NEW c \in Clients,
             \/ Request(c) \/ GenerationThrows(c) \/ Spurious(c)
             \/ ClientStep(c) /\ ~Acquire(c) /\ ~Wake(c) /\ ~GiveLeaseBack(c)
             \/ WakeSleepsAgain(c)
      PROVE  UNCHANGED <<queue, nextTicket, busy>>
  BY <1>8 DEF Request, ClientStep, TurnedAway, LockGenerate, TakeRunner, StartGenerating,
              PassDone, NextPass, GenerationEnds, UnlockGenerate, GenerationThrows, Spurious,
              SpuriousWake, WakeSleepsAgain, coordVars
<1>9. ASSUME \/ \E l \in Loaders : TryLock(l) \/ LoaderStep(l)
             \/ Stop \/ ResetKv \/ PostContext \/ UNCHANGED vars
      PROVE  UNCHANGED <<queue, nextTicket, busy>>
  BY <1>9 DEF TryLock, LoaderStep, Unload, Construct, Install, LoadFails, UnlockLoader, Stop,
              ResetKv, PostContext, vars, coordVars
<1>10. ASSUME NEW c \in Clients, Wake(c) PROVE WakeTakes(c) \/ WakeSleepsAgain(c)
  BY <1>10 DEF Wake
<1>. QED
  BY <1>4, <1>5, <1>6, <1>7, <1>8, <1>9, <1>10 DEF Next, ClientStep

(* The coordinator, used by the chat handler, is a FIFO gate of bounded     *)
(* length: src/src/openai_api.cpp:192-213.                                  *)
THEOREM CoordinatorIsAGate == Spec => ImplementsTicketGate
<1>1. Init => Gate!GateInit
  <2>. SUFFICES ASSUME Init PROVE Gate!GateInit
    OBVIOUS
  <2>1. nextTicket = 0 /\ queue = <<>> /\ \A c \in Clients : ~Holder(c)
    BY DEF Init, CoordInit
  <2>2. Inside = 0
    BY <2>1 DEF Inside
  <2>3. Len(queue) = 0
    BY <2>1
  <2>4. nextTicket - Len(queue) = 0
    <3>. HIDE DEF Inside
    <3>1. nextTicket = 0
      BY <2>1
    <3>. QED
      BY <3>1, <2>3
  <2>. QED
    BY <2>1, <2>2, <2>4 DEF Gate!GateInit
<1>. QED
  BY <1>1, GateStep, Invariance, PTL DEF Spec, ImplementsTicketGate, Gate!GateSpec
=============================================================================
