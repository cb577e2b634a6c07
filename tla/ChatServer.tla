----------------------------- MODULE ChatServer -----------------------------
(***************************************************************************)
(* The HTTP server's threads (src/src/server.cpp) around one engine: chat  *)
(* requests, which pass the RequestCoordinator, take generate_mutex_ and   *)
(* generate with the current runner; load_model and unload_model, which    *)
(* try_lock the same mutex and swap the runner; and the endpoints that     *)
(* touch a running generation: stop, reset_kv and config.                  *)
(*                                                                         *)
(* A generation is a number of forward passes; between two of them it      *)
(* looks at the cancel flag.  A runner is abstracted to the context it was *)
(* initialized with.                                                       *)
(***************************************************************************)
EXTENDS RequestCoordinator

CONSTANTS
  Loaders,      (* the threads that serve load_model and unload_model       *)
  Contexts,     (* values of context_len                                    *)
  MaxRequests,  (* bound on the chat requests                               *)
  MaxLoads,     (* bound on the loads and unloads                           *)
  MaxTokens,    (* bound on the passes of a generation                      *)
  NoOne, NoRunner

ASSUME ServerAssumption ==
  /\ Contexts # {} /\ Contexts \subseteq Nat \ {0}
  /\ MaxRequests \in Nat /\ MaxLoads \in Nat /\ MaxTokens \in Nat
  /\ Clients \cap Loaders = {} /\ NoOne \notin Clients \cup Loaders
  /\ NoRunner \notin [id : Nat, context : Contexts, wanted : Contexts]

VARIABLES
  pc,          (* client or loader -> where its handler is                  *)
  genLock,     (* who holds generate_mutex_                                 *)
  runner,      (* runner_                                                   *)
  using,       (* client -> r, the runner its handler took                  *)
  next,        (* loader -> the runner under construction                   *)
  tokens,      (* client -> passes its generation still makes               *)
  cancel,      (* cancel_generation_                                        *)
  kvEpoch,     (* changes whenever POST /api/reset_kv zeroes the KV cache   *)
  contextLen,  (* config_.context_len                                       *)
  wanted,      (* the context_len last posted to /api/config                *)
  requests, loads, (* how many chat requests and (un)loads there were       *)
  crashed      (* an exception left a thread: std::terminate                *)

clientVars == <<using, tokens>>
loaderVars == <<next, loads>>
configVars == <<contextLen, wanted>>
vars == <<coordVars, pc, genLock, runner, clientVars, loaderVars, cancel, kvEpoch, configVars,
          requests, crashed>>

Goto(t, place) == pc' = [pc EXCEPT ![t] = place]

Init ==
  /\ CoordInit
  /\ pc = [t \in Clients \cup Loaders |-> "idle"]
  /\ genLock = NoOne
  /\ contextLen \in Contexts /\ wanted = contextLen
  /\ \/ runner = NoRunner
     \/ \E n \in Contexts : runner = [id |-> 0, context |-> n, wanted |-> n]
  /\ using = [c \in Clients |-> NoRunner] /\ tokens = [c \in Clients |-> 0]
  /\ next = [l \in Loaders |-> NoRunner]
  /\ cancel = FALSE /\ kvEpoch = 0
  /\ requests = 0 /\ loads = 0 /\ crashed = FALSE
-----------------------------------------------------------------------------
(* handle_chat_completion, one action per lock it takes or leaves.          *)

(* Fault: a pending stop is cleared when the request comes in. *)
Request_F(c) ==
  /\ pc[c] = "idle" /\ requests < MaxRequests
  /\ Goto(c, "acquire") /\ requests' = requests + 1 /\ cancel' = FALSE
  /\ UNCHANGED <<coordVars, genLock, runner, clientVars, loaderVars, kvEpoch, configVars, crashed>>

Request(c) ==
  /\ pc[c] = "idle" /\ requests < MaxRequests
  /\ Goto(c, "acquire") /\ requests' = requests + 1
  /\ UNCHANGED <<coordVars, genLock, runner, clientVars, loaderVars, cancel, kvEpoch, configVars,
                 crashed>>

TurnedAway(c) ==
  /\ pc[c] = "acquire" /\ Full
  /\ Goto(c, "idle")
  /\ UNCHANGED <<coordVars, genLock, runner, clientVars, loaderVars, cancel, kvEpoch, configVars,
                 requests, crashed>>

Acquire(c) ==
  /\ pc[c] = "acquire" /\ Enter(c)
  /\ Goto(c, IF c \in asleep' THEN "asleep" ELSE "leased")
  /\ UNCHANGED <<genLock, runner, clientVars, loaderVars, cancel, kvEpoch, configVars,
                 requests, crashed>>

Wake(c) ==
  /\ pc[c] = "asleep"
  /\ \/ WakeTakes(c) /\ Goto(c, "leased")
     \/ WakeSleepsAgain(c) /\ UNCHANGED pc
  /\ UNCHANGED <<genLock, runner, clientVars, loaderVars, cancel, kvEpoch, configVars,
                 requests, crashed>>

LockGenerate(c) ==
  /\ pc[c] = "leased" /\ genLock = NoOne
  /\ genLock' = c /\ Goto(c, "locked")
  /\ UNCHANGED <<coordVars, runner, clientVars, loaderVars, cancel, kvEpoch, configVars,
                 requests, crashed>>

(* current_runner(); without one the answer is 503.                         *)
TakeRunner(c) ==
  /\ pc[c] = "locked"
  /\ using' = [using EXCEPT ![c] = runner]
  /\ Goto(c, IF runner = NoRunner THEN "unlock" ELSE "ready")
  /\ UNCHANGED <<coordVars, genLock, runner, tokens, loaderVars, cancel, kvEpoch, configVars,
                 requests, crashed>>

(* "A fresh generation clears any pending stop", then the prefill.          *)
StartGenerating(c) ==
  /\ pc[c] = "ready"
  /\ cancel' = FALSE
  /\ \E n \in 0 .. MaxTokens : tokens' = [tokens EXCEPT ![c] = n]
  /\ Goto(c, "pass")
  /\ UNCHANGED <<coordVars, genLock, runner, using, loaderVars, kvEpoch, configVars,
                 requests, crashed>>

PassDone(c) ==
  /\ pc[c] = "pass" /\ Goto(c, "between")
  /\ UNCHANGED <<coordVars, genLock, runner, clientVars, loaderVars, cancel, kvEpoch, configVars,
                 requests, crashed>>

NextPass(c) ==
  /\ pc[c] = "between" /\ ~cancel /\ tokens[c] > 0
  /\ tokens' = [tokens EXCEPT ![c] = tokens[c] - 1]
  /\ Goto(c, "pass")
  /\ UNCHANGED <<coordVars, genLock, runner, using, loaderVars, cancel, kvEpoch, configVars,
                 requests, crashed>>

(* max_tokens, a stop token, the cancel flag, or a client that is gone.     *)
GenerationEnds(c) ==
  /\ pc[c] = "between"
  /\ Goto(c, "unlock") /\ tokens' = [tokens EXCEPT ![c] = 0]
  /\ UNCHANGED <<coordVars, genLock, runner, using, loaderVars, cancel, kvEpoch, configVars,
                 requests, crashed>>

(* A pass throws, and no handler of the thread catches it.                  *)
GenerationThrows(c) ==
  /\ pc[c] = "pass" /\ crashed' = TRUE
  /\ UNCHANGED <<coordVars, pc, genLock, runner, clientVars, loaderVars, cancel, kvEpoch,
                 configVars, requests>>

(* The handler returns: r, gen_lock and the lease are destroyed in turn.    *)
UnlockGenerate(c) ==
  /\ pc[c] = "unlock"
  /\ using' = [using EXCEPT ![c] = NoRunner]
  /\ genLock' = NoOne /\ Goto(c, "release")
  /\ UNCHANGED <<coordVars, runner, tokens, loaderVars, cancel, kvEpoch, configVars,
                 requests, crashed>>

GiveLeaseBack(c) ==
  /\ pc[c] = "release" /\ Release
  /\ Goto(c, "idle")
  /\ UNCHANGED <<genLock, runner, clientVars, loaderVars, cancel, kvEpoch, configVars,
                 requests, crashed>>
-----------------------------------------------------------------------------
(* swap_runner.                                                             *)

(* Fault: unloading does not wait for the generation. *)
TryLock_F(l) ==
  /\ pc[l] = "idle" /\ loads < MaxLoads
  /\ loads' = loads + 1
  /\ \/ genLock = NoOne /\ genLock' = l /\ Goto(l, "load")
     \/ Goto(l, "unload") /\ UNCHANGED genLock
  /\ UNCHANGED <<coordVars, runner, clientVars, next, cancel, kvEpoch, configVars,
                 requests, crashed>>

TryLock(l) ==
  /\ pc[l] = "idle" /\ loads < MaxLoads
  /\ loads' = loads + 1
  /\ IF genLock = NoOne
     THEN genLock' = l /\ \E what \in {"load", "unload"} : Goto(l, what)
     ELSE UNCHANGED <<genLock, pc>>   (* 503: a generation is in progress *)
  /\ UNCHANGED <<coordVars, runner, clientVars, next, cancel, kvEpoch, configVars,
                 requests, crashed>>

Unload(l) ==
  /\ pc[l] = "unload" /\ runner' = NoRunner /\ Goto(l, "unlock")
  /\ UNCHANGED <<coordVars, genLock, clientVars, loaderVars, cancel, kvEpoch, configVars,
                 requests, crashed>>

(* The new runner takes its context from the configuration.                 *)
Construct(l) ==
  /\ pc[l] = "load"
  /\ next' = [next EXCEPT ![l] = [id |-> loads, context |-> contextLen, wanted |-> wanted]]
  /\ Goto(l, "initialize")
  /\ UNCHANGED <<coordVars, genLock, runner, clientVars, loads, cancel, kvEpoch, configVars,
                 requests, crashed>>

Install(l) ==
  /\ pc[l] = "initialize"
  /\ runner' = next[l] /\ next' = [next EXCEPT ![l] = NoRunner]
  /\ Goto(l, "unlock")
  /\ UNCHANGED <<coordVars, genLock, clientVars, loads, cancel, kvEpoch, configVars,
                 requests, crashed>>

(* A bad path or a failed initialize(): the old runner stays.               *)
LoadFails(l) ==
  /\ pc[l] \in {"load", "initialize"}
  /\ next' = [next EXCEPT ![l] = NoRunner] /\ Goto(l, "unlock")
  /\ UNCHANGED <<coordVars, genLock, runner, clientVars, loads, cancel, kvEpoch, configVars,
                 requests, crashed>>

UnlockLoader(l) ==
  /\ pc[l] = "unlock" /\ genLock' = NoOne /\ Goto(l, "idle")
  /\ UNCHANGED <<coordVars, runner, clientVars, loaderVars, cancel, kvEpoch, configVars,
                 requests, crashed>>
-----------------------------------------------------------------------------
(* The other endpoints.                                                     *)

Stop ==
  /\ ~cancel /\ cancel' = TRUE
  /\ UNCHANGED <<coordVars, pc, genLock, runner, clientVars, loaderVars, kvEpoch, configVars,
                 requests, crashed>>

(* No lock is taken around the runner's KVCacheManager::reset.              *)
ResetKv ==
  /\ runner # NoRunner /\ kvEpoch' = 1 - kvEpoch
  /\ UNCHANGED <<coordVars, pc, genLock, runner, clientVars, loaderVars, cancel, configVars,
                 requests, crashed>>

(* context_len is compared with the configuration, for requires_reload, and *)
(* not stored.                                                              *)
PostContext ==
  /\ \E n \in Contexts : n # wanted /\ wanted' = n
  /\ UNCHANGED <<coordVars, pc, genLock, runner, clientVars, loaderVars, cancel, kvEpoch,
                 contextLen, requests, crashed>>

Spurious(c) ==
  /\ SpuriousWake(c)
  /\ UNCHANGED <<pc, genLock, runner, clientVars, loaderVars, cancel, kvEpoch, configVars,
                 requests, crashed>>
-----------------------------------------------------------------------------
ClientStep(c) ==
  \/ TurnedAway(c) \/ Acquire(c) \/ Wake(c) \/ LockGenerate(c) \/ TakeRunner(c)
  \/ StartGenerating(c) \/ PassDone(c) \/ NextPass(c) \/ GenerationEnds(c)
  \/ UnlockGenerate(c) \/ GiveLeaseBack(c)

LoaderStep(l) ==
  Unload(l) \/ Construct(l) \/ Install(l) \/ LoadFails(l) \/ UnlockLoader(l)

Next ==
  /\ ~crashed
  /\ \/ \E c \in Clients : Request(c) \/ ClientStep(c) \/ GenerationThrows(c) \/ Spurious(c)
     \/ \E l \in Loaders : TryLock(l) \/ LoaderStep(l)
     \/ Stop \/ ResetKv \/ PostContext

(* Every thread that can go on does: the scheduler is fair, a pass and an   *)
(* initialization take finite time.  Nobody has to send anything, and no    *)
(* spurious wake-up has to happen.                                          *)
Spec ==
  /\ Init /\ [][Next]_vars
  /\ \A c \in Clients : WF_vars(~crashed /\ ClientStep(c))
  /\ \A l \in Loaders : WF_vars(~crashed /\ LoaderStep(l))
-----------------------------------------------------------------------------
ClientPlaces == {"idle", "acquire", "asleep", "leased", "locked", "ready", "pass", "between",
                 "unlock", "release"}
LoaderPlaces == {"idle", "load", "unload", "initialize", "unlock"}
Runners == [id : Nat, context : Contexts, wanted : Contexts]

(* Types; a woken client is one that sleeps.                                *)
TypeOK ==
  /\ CoordTypeOK
  /\ pc \in [Clients \cup Loaders -> ClientPlaces \cup LoaderPlaces]
  /\ \A c \in Clients : pc[c] \in ClientPlaces
  /\ \A l \in Loaders : pc[l] \in LoaderPlaces
  /\ genLock \in Clients \cup Loaders \cup {NoOne}
  /\ runner \in Runners \cup {NoRunner}
  /\ using \in [Clients -> Runners \cup {NoRunner}] /\ next \in [Loaders -> Runners \cup {NoRunner}]
  /\ tokens \in [Clients -> Nat]
  /\ cancel \in BOOLEAN /\ kvEpoch \in {0, 1} /\ crashed \in BOOLEAN
  /\ contextLen \in Contexts /\ wanted \in Contexts
  /\ requests \in Nat /\ loads \in Nat

Generating(c) == pc[c] \in {"ready", "pass", "between"}

(* The runner a generation works with is the server's runner until it ends, *)
(* however loads and unloads interleave with it.                            *)
WorkingRunnerStays == \A c \in Clients : Generating(c) => using[c] = runner

(* A stop that comes while a generation runs stands until it ends: no other *)
(* request that comes in or waits clears it.                                *)
StopIsHeard ==
  [][\A c \in Clients : pc[c] \in {"pass", "between"} /\ pc'[c] \in {"pass", "between"} /\ cancel
       => cancel']_vars

(* The lease holder, if any, and its ticket.                                *)
Holder(c) == pc[c] \in {"leased", "locked", "ready", "pass", "between", "unlock", "release"}
Inside == IF \E c \in Clients : Holder(c)
          THEN ticket[CHOOSE c \in Clients : Holder(c)] ELSE 0

Gate == INSTANCE TicketGate WITH
  Limit <- QueueLimit, drawn <- nextTicket, called <- nextTicket - Len(queue), inside <- Inside

(* The leases go out strictly in the order the tickets were drawn, one at a *)
(* time, and no more than QueueLimit requests wait.                         *)
ImplementsTicketGate == Gate!GateSpec

(* Every chat request is answered, unless the process dies: no wake-up is   *)
(* lost between the queue and its sleepers.                                 *)
EveryRequestIsAnswered ==
  \A c \in Clients : pc[c] = "acquire" ~> (pc[c] = "idle" \/ crashed)

(* kv_cache.cpp:35-37, of reset(): "callers reset between generations,      *)
(* never mid-pass".                                                         *)
NoResetMidPass == [][(\E c \in Clients : pc[c] = "pass") => kvEpoch' = kvEpoch]_vars
=============================================================================
