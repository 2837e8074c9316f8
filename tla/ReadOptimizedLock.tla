------------------------- MODULE ReadOptimizedLock -------------------------
(***************************************************************************)
(* The read-optimized lock of concurrency/src/lib.rs.                      *)
(*                                                                         *)
(* The lock word is an ArcSwap holding a reference-counted ReadToken.  A   *)
(* ReadOk token lets readers in: a reader is in its critical section as    *)
(* long as it keeps its guard on the token.  A WriteOngoing token sends    *)
(* readers and other writers to sleep on the token's notification.  Each   *)
(* token carries one notification: a ReadOk token fires it when its last   *)
(* reference is dropped (TriggerWhenDone), a WriteOngoing token's is fired *)
(* by the writer when it is done.                                          *)
(*                                                                         *)
(* A token and its notification are allocated together and named by one    *)
(* address, which is handed out again once nothing refers to either, so    *)
(* that the pointer comparison of compare_and_swap could confuse two       *)
(* tokens.  ArcSwap is external: load, compare_and_swap and store are      *)
(* atomic, and a guard keeps its token alive like a counted reference.     *)
(***************************************************************************)
EXTENDS Threads

CONSTANT
    Tok         \* addresses of ReadToken objects and their notifications

\* None also stands for no notification.
ASSUME TokAssumption == None \notin Tok

VARIABLES
    lockPc,         \* where each thread is in read(), lock() or a guard's drop
    token,      \* the ArcSwap: the address of the current token
    kind,       \* of each token: "ReadOk" or "WriteOngoing"
    held,       \* the tokens each thread holds a guard on
    waitsOn,    \* whose notification a thread has cloned to wait for
    unblock,    \* whose notification a writer fires when it is done
    notified    \* of each token: its notification has_been_notified

lockVars == <<lockPc, token, kind, held, waitsOn, unblock, notified>>

LockPC == {"idle", "load", "readWait", "reading",
       "lockLoad", "lockWait", "cas", "retry", "drain", "await", "writing",
       "notify"}

(* The state has its types, and each thread holds exactly the guards and    *)
(* notifications that its place in the code calls for: no path through      *)
(* lock() or a drop leaks a guard or forgets one.                           *)
LockTypeOK ==
    /\ lockPc \in [Thread -> LockPC]
    /\ token \in Tok
    /\ kind \in [Tok -> {"ReadOk", "WriteOngoing"}]
    /\ held \in [Thread -> SUBSET Tok]
    /\ waitsOn \in [Thread -> Tok \cup {None}]
    /\ unblock \in [Thread -> Tok \cup {None}]
    /\ notified \in [Tok -> BOOLEAN]
    /\ \A t \in Thread :
          /\ held[t] # {} <=> lockPc[t] \in {"reading", "cas", "retry", "drain"}
          /\ waitsOn[t] # None <=>
                lockPc[t] \in {"readWait", "lockWait", "drain", "await"}
          /\ unblock[t] # None <=>
                lockPc[t] \in {"drain", "await", "writing", "notify"}

LockInit ==
    /\ lockPc = [t \in Thread |-> "idle"]
    /\ token \in Tok
    /\ kind = [k \in Tok |-> "ReadOk"]
    /\ held = [t \in Thread |-> {}]
    /\ waitsOn = [t \in Thread |-> None]
    /\ unblock = [t \in Thread |-> None]
    /\ notified = [k \in Tok |-> FALSE]

-----------------------------------------------------------------------------
(* Reference counts: what may not be handed out by the allocator.           *)

LiveTok(k) == k = token \/ \E t \in Thread : k \in held[t]

LiveNote(k) == \E t \in Thread : waitsOn[t] = k \/ unblock[t] = k

(* Arc::new of a token of kind kd, with a fresh notification.               *)
NewToken(k, kd) ==
    /\ ~LiveTok(k)
    /\ ~LiveNote(k)
    /\ token' = k
    /\ kind' = [kind EXCEPT ![k] = kd]
    /\ notified' = [notified EXCEPT ![k] = FALSE]

LastRef(t, k) == k # token /\ \A u \in Thread \ {t} : k \notin held[u]

(* Mutant: TriggerWhenDone without its Drop.                                *)
DropGuardSilent(t, k) ==
    /\ held' = [held EXCEPT ![t] = @ \ {k}]
    /\ UNCHANGED notified

(* Thread t drops its guard on token k; the last reference to a ReadOk      *)
(* token drops its TriggerWhenDone, which notifies.                         *)
DropGuard(t, k) ==
    /\ held' = [held EXCEPT ![t] = @ \ {k}]
    /\ notified' = IF kind[k] = "ReadOk" /\ LastRef(t, k)
                   THEN [notified EXCEPT ![k] = TRUE]
                   ELSE notified

(* Notification::wait: what lets a waiting thread continue.                 *)
Awakened(t) == notified[waitsOn[t]]

-----------------------------------------------------------------------------
(* read()                                                                   *)

StartRead(t) ==
    /\ lockPc[t] = "idle"
    /\ lockPc' = [lockPc EXCEPT ![t] = "load"]
    /\ UNCHANGED <<token, kind, held, waitsOn, unblock, notified>>

ReadLoadOk(t) ==
    /\ lockPc[t] = "load"
    /\ kind[token] = "ReadOk"
    /\ held' = [held EXCEPT ![t] = @ \cup {token}]
    /\ lockPc' = [lockPc EXCEPT ![t] = "reading"]
    /\ UNCHANGED <<token, kind, waitsOn, unblock, notified>>

ReadLoadBlocked(t) ==
    /\ lockPc[t] = "load"
    /\ kind[token] = "WriteOngoing"
    /\ waitsOn' = [waitsOn EXCEPT ![t] = token]
    /\ lockPc' = [lockPc EXCEPT ![t] = "readWait"]
    /\ UNCHANGED <<token, kind, held, unblock, notified>>

ReadWake(t) ==
    /\ lockPc[t] = "readWait"
    /\ Awakened(t)
    /\ waitsOn' = [waitsOn EXCEPT ![t] = None]
    /\ lockPc' = [lockPc EXCEPT ![t] = "load"]
    /\ UNCHANGED <<token, kind, held, unblock, notified>>

(* Drop of a MutexReader.                                                   *)
EndRead(t) ==
    /\ lockPc[t] = "reading"
    /\ \E k \in held[t] : DropGuard(t, k)
    /\ lockPc' = [lockPc EXCEPT ![t] = "idle"]
    /\ UNCHANGED <<token, kind, waitsOn, unblock>>

-----------------------------------------------------------------------------
(* lock()                                                                   *)

StartLock(t) ==
    /\ lockPc[t] = "idle"
    /\ lockPc' = [lockPc EXCEPT ![t] = "lockLoad"]
    /\ UNCHANGED <<token, kind, held, waitsOn, unblock, notified>>

LockLoadOk(t) ==
    /\ lockPc[t] = "lockLoad"
    /\ kind[token] = "ReadOk"
    /\ held' = [held EXCEPT ![t] = @ \cup {token}]
    /\ lockPc' = [lockPc EXCEPT ![t] = "cas"]
    /\ UNCHANGED <<token, kind, waitsOn, unblock, notified>>

LockLoadBlocked(t) ==
    /\ lockPc[t] = "lockLoad"
    /\ kind[token] = "WriteOngoing"
    /\ waitsOn' = [waitsOn EXCEPT ![t] = token]
    /\ lockPc' = [lockPc EXCEPT ![t] = "lockWait"]
    /\ UNCHANGED <<token, kind, held, unblock, notified>>

LockWake(t) ==
    /\ lockPc[t] = "lockWait"
    /\ Awakened(t)
    /\ waitsOn' = [waitsOn EXCEPT ![t] = None]
    /\ lockPc' = [lockPc EXCEPT ![t] = "lockLoad"]
    /\ UNCHANGED <<token, kind, held, unblock, notified>>

(* The compare_and_swap installs a WriteOngoing token; the writer will wait *)
(* for the notification of the token it replaced.                           *)
CasOk(t) ==
    /\ lockPc[t] = "cas"
    /\ token \in held[t]
    /\ \E k \in Tok :
          /\ NewToken(k, "WriteOngoing")
          /\ unblock' = [unblock EXCEPT ![t] = k]
    /\ waitsOn' = [waitsOn EXCEPT ![t] = token]
    /\ lockPc' = [lockPc EXCEPT ![t] = "drain"]
    /\ UNCHANGED held

(* Another writer came first: `prev` is a second guard, on what it stored.  *)
CasFail(t) ==
    /\ lockPc[t] = "cas"
    /\ token \notin held[t]
    /\ held' = [held EXCEPT ![t] = @ \cup {token}]
    /\ lockPc' = [lockPc EXCEPT ![t] = "retry"]
    /\ UNCHANGED <<token, kind, waitsOn, unblock, notified>>

(* `continue` drops guard and prev, one after the other.                    *)
Retry(t) ==
    /\ lockPc[t] = "retry"
    /\ \E k \in held[t] : 
          /\ DropGuard(t, k)
          /\ lockPc' = [lockPc EXCEPT ![t] = IF held[t] = {k} THEN "lockLoad" ELSE @]
    /\ UNCHANGED <<token, kind, waitsOn, unblock>>

(* mem::drop((guard, prev)); both are guards on the replaced token.         *)
Drain(t) ==
    /\ lockPc[t] = "drain"
    /\ \E k \in held[t] : DropGuard(t, k)
    /\ lockPc' = [lockPc EXCEPT ![t] = "await"]
    /\ UNCHANGED <<token, kind, waitsOn, unblock>>

(* Mutant: the wait on readers_done that "may not be necessary" is left out. *)
BeginWriteNoWait(t) ==
    /\ lockPc[t] = "await"
    /\ waitsOn' = [waitsOn EXCEPT ![t] = None]
    /\ lockPc' = [lockPc EXCEPT ![t] = "writing"]
    /\ UNCHANGED <<token, kind, held, unblock, notified>>

(* readers_done.wait() returns.                                             *)
BeginWrite(t) ==
    /\ lockPc[t] = "await"
    /\ Awakened(t)
    /\ waitsOn' = [waitsOn EXCEPT ![t] = None]
    /\ lockPc' = [lockPc EXCEPT ![t] = "writing"]
    /\ UNCHANGED <<token, kind, held, unblock, notified>>

(* Mutant: the writer reopens the lock but never notifies.                  *)
EndWriteForgetful(t) ==
    /\ lockPc[t] = "writing"
    /\ \E k \in Tok : NewToken(k, "ReadOk")
    /\ unblock' = [unblock EXCEPT ![t] = None]
    /\ lockPc' = [lockPc EXCEPT ![t] = "idle"]
    /\ UNCHANGED <<held, waitsOn>>

(* Drop of a MutexWriter: first the store of a fresh ReadOk token...        *)
EndWrite(t) ==
    /\ lockPc[t] = "writing"
    /\ \E k \in Tok : NewToken(k, "ReadOk")
    /\ lockPc' = [lockPc EXCEPT ![t] = "notify"]
    /\ UNCHANGED <<held, waitsOn, unblock>>

(* ... then unblock.notify().                                               *)
Unblock(t) ==
    /\ lockPc[t] = "notify"
    /\ notified' = [notified EXCEPT ![unblock[t]] = TRUE]
    /\ unblock' = [unblock EXCEPT ![t] = None]
    /\ lockPc' = [lockPc EXCEPT ![t] = "idle"]
    /\ UNCHANGED <<token, kind, held, waitsOn>>

-----------------------------------------------------------------------------
LockStep(t) ==
    \/ ReadLoadOk(t) \/ ReadLoadBlocked(t) \/ ReadWake(t) \/ EndRead(t)
    \/ LockLoadOk(t) \/ LockLoadBlocked(t) \/ LockWake(t)
    \/ CasOk(t) \/ CasFail(t) \/ Retry(t) \/ Drain(t)
    \/ BeginWrite(t) \/ EndWrite(t) \/ Unblock(t)

LockNext == \E t \in Thread : StartRead(t) \/ StartLock(t) \/ LockStep(t)

LockSpec == LockInit /\ [][LockNext]_lockVars

(* Threads run whenever they can, and no caller keeps a guard for ever.     *)
LockFairness == \A t \in Thread : WF_lockVars(LockStep(t))

LockFairSpec == LockSpec /\ LockFairness

-----------------------------------------------------------------------------
Readers == {t \in Thread : lockPc[t] = "reading"}
Writers == {t \in Thread : lockPc[t] = "writing"}

(* The SAFETY comments of MutexReader and MutexWriter: nobody reads while a *)
(* writer is in its critical section, and there is at most one writer.      *)
MutualExclusion ==
    /\ \A t, u \in Writers : t = u
    /\ Writers # {} => Readers = {}

(* The writer that has closed the lock: from its successful compare_and_swap
   to the store that reopens it. *)
Closing == {t \in Thread : lockPc[t] \in {"drain", "await", "writing"}}

(* A sleeping reader or writer is never forgotten: the notification it      *)
(* waits for has fired, or the writer that owes it is still on its way to   *)
(* fire it.                                                                 *)
NoLostWakeup ==
    \A t \in Thread : lockPc[t] \in {"readWait", "lockWait"} =>
        \/ Awakened(t)
        \/ \E u \in Closing \cup {v \in Thread : lockPc[v] = "notify"} :
              unblock[u] = waitsOn[t]

(* A writer sleeping on readers_done is owed its wake-up by a thread that   *)
(* still holds the token it replaced; when the last guard goes, so does the *)
(* wait.                                                                    *)
ReadersDoneIsOwed ==
    \A t \in Thread : lockPc[t] \in {"drain", "await"} /\ ~Awakened(t) =>
        \E u \in Thread : waitsOn[t] \in held[u]

(* The abstract gate: it is closed from a successful compare_and_swap to    *)
(* the store that reopens it.                                               *)
Closer == IF Closing = {} THEN None ELSE CHOOSE t \in Closing : TRUE

Gate == INSTANCE RWGate WITH Nobody <- None, readers <- Readers,
            closer <- Closer, admitted <- Writers # {}

(* The lock is a gate: once a writer has closed it no reader gets in, and   *)
(* the writer is admitted only when the readers that were inside have left. *)
GateSafety == Gate!Spec

(* ... and, callers dropping their guards, the readers do leave, the closer *)
(* is admitted and the gate opens again.                                    *)
GateLive == Gate!FairSpec
=============================================================================
