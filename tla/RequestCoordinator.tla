------------------------- MODULE RequestCoordinator -------------------------
(***************************************************************************)
(* The queue of chat requests (src/src/openai_api.cpp:192-213): acquire()  *)
(* turns a request away when QueueLimit of them wait, otherwise it draws a *)
(* ticket and sleeps on a condition variable until the lease is free and   *)
(* its ticket is the first; giving the lease back wakes every sleeper.     *)
(* Each action is one critical section of mutex_; a sleeper's wake-up and  *)
(* its look at the predicate are one.  The condition variable may wake a   *)
(* sleeper for no reason, but nothing can count on that.                   *)
(***************************************************************************)
EXTENDS Integers, Sequences

CONSTANTS
  Clients,    (* the threads that serve chat requests                       *)
  QueueLimit  (* queue_limit_                                               *)

ASSUME CoordinatorAssumption == QueueLimit \in Nat \ {0}

VARIABLES
  queue,       (* queue_: the waiting tickets                               *)
  nextTicket,  (* next_ticket_                                              *)
  busy,        (* busy_                                                     *)
  ticket,      (* client -> my_ticket                                       *)
  asleep,      (* clients waiting on cv_                                    *)
  notified     (* those of them that have been woken and not yet run        *)

coordVars == <<queue, nextTicket, busy, ticket, asleep, notified>>

CoordInit ==
  /\ queue = <<>> /\ nextTicket = 0 /\ busy = FALSE
  /\ ticket = [c \in Clients |-> 0] /\ asleep = {} /\ notified = {}

Full == Len(queue) >= QueueLimit

(* acquire(): a ticket, and the lease at once when nothing is in the way.   *)
Enter(c) ==
  /\ ~Full
  /\ nextTicket' = nextTicket + 1
  /\ ticket' = [ticket EXCEPT ![c] = nextTicket + 1]
  /\ IF ~busy /\ queue = <<>>
     THEN busy' = TRUE /\ UNCHANGED <<queue, asleep>>
     ELSE queue' = Append(queue, nextTicket + 1) /\ asleep' = asleep \cup {c} /\ UNCHANGED busy
  /\ UNCHANGED notified

(* Fault: whoever is woken first takes the lease. *)
MyTurn_F(c) == ~busy
MyTurn(c) == ~busy /\ Head(queue) = ticket[c]

(* Fault: whoever takes the lease may be woken once more. *)
WakeTakes_F(c) ==
  /\ c \in notified /\ MyTurn(c)
  /\ busy' = TRUE /\ queue' = Tail(queue)
  /\ asleep' = asleep \ {c} /\ UNCHANGED notified
  /\ UNCHANGED <<nextTicket, ticket>>

(* A woken sleeper takes the lease, or finds that it is not its turn.       *)
WakeTakes(c) ==
  /\ c \in notified /\ MyTurn(c)
  /\ busy' = TRUE /\ queue' = Tail(queue)
  /\ asleep' = asleep \ {c} /\ notified' = notified \ {c}
  /\ UNCHANGED <<nextTicket, ticket>>

WakeSleepsAgain(c) ==
  /\ c \in notified /\ ~MyTurn(c)
  /\ notified' = notified \ {c}
  /\ UNCHANGED <<queue, nextTicket, busy, ticket, asleep>>

SpuriousWake(c) ==
  /\ c \in asleep \ notified
  /\ notified' = notified \cup {c}
  /\ UNCHANGED <<queue, nextTicket, busy, ticket, asleep>>

(* Fault: notify_one. *)
Release_F ==
  /\ busy' = FALSE
  /\ IF asleep = {} THEN notified' = notified
     ELSE \E c \in asleep : notified' = notified \cup {c}
  /\ UNCHANGED <<queue, nextTicket, ticket, asleep>>

Release ==
  /\ busy' = FALSE
  /\ notified' = asleep
  /\ UNCHANGED <<queue, nextTicket, ticket, asleep>>

CoordTypeOK ==
  /\ queue \in Seq(Nat) /\ nextTicket \in Nat /\ busy \in BOOLEAN
  /\ ticket \in [Clients -> Nat]
  /\ asleep \subseteq Clients /\ notified \subseteq asleep
=============================================================================
