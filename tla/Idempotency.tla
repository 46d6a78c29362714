----------------------------- MODULE Idempotency -----------------------------
(***************************************************************************)
(* execution/idempotency.py: calls that carry an idempotency key share one *)
(* execution and its answer.  The records are kept in memory and written   *)
(* whole to a file; pending is memory only.  A call is "waiting" on the    *)
(* future of the call that owns the key, or "operating" for itself.        *)
(***************************************************************************)
EXTENDS Naturals, FiniteSets

CONSTANTS Calls, Keys

ASSUME KeysAssumption == "none" \notin Keys \cup Calls

VARIABLES call,      \* call -> [pc, key, body]
          records,   \* key -> NoRecord or [body, answer, expired]
          saved,     \* the records in the file
          pending,   \* key -> the owner of the future, or NoOwner
          given,     \* ghost: key -> the answers given since its record was last forgotten
          orphaned   \* ghost: keys whose owner failed to write the record

idempotencyVars == <<call, records, saved, pending, given, orphaned>>

(* A record holds the body as a hash would; answers are positive numbers. *)
NoRecord == [body |-> <<>>, answer |-> 0, expired |-> FALSE]
NoOwner == "none"
Error == 0

Keyed(c) == call[c].key \in Keys

IdempotencyInit(keys, bodies) ==
  /\ call = [c \in Calls |-> [pc |-> "idle", key |-> keys[c], body |-> bodies[c]]]
  /\ records = [k \in Keys |-> NoRecord]
  /\ saved = records
  /\ pending = [k \in Keys |-> NoOwner]
  /\ given = [k \in Keys |-> {}]
  /\ orphaned = {}

(* The calls cs end, with an answer or an exception. *)
End(cs) ==
  call' = [d \in Calls |-> IF d \in cs THEN [call[d] EXCEPT !.pc = "answered"] ELSE call[d]]

Told(k, answer, before) ==
  given' = IF k \in Keys /\ answer # Error THEN [before EXCEPT ![k] = @ \cup {answer}] ELSE before

(* _prune: a caller drops the expired records of all keys, and saves. *)
Pruned == [k \in Keys |-> IF records[k].expired THEN NoRecord ELSE records[k]]

(* What is not to be found again after the records rs are gone. *)
GivenWithout(rs) == [k \in Keys |-> IF rs[k] # records[k] THEN {} ELSE given[k]]

(* A mutant: the second call with a key does not look for the first. *)
PendingUnseen(k) == FALSE

(* Whether another call with this key is under way. *)
PendingFound(k) == pending[k] # NoOwner

Owns(c) == call' = [call EXCEPT ![c].pc = "operating"]

(* execute, up to its first await outside the lock.  Whoever comes with    *)
(* another body under the same key gets a conflict.                        *)
Call(c) ==
  LET k == call[c].key
      r == Pruned[k]
  IN  /\ call[c].pc = "idle"
      /\ \/ ~Keyed(c) /\ Owns(c) /\ UNCHANGED <<records, saved, pending, given>>
         \/ /\ Keyed(c)
            /\ records' = Pruned
            /\ saved' = IF Pruned # records THEN Pruned ELSE saved
            /\ \/ /\ r # NoRecord
                  /\ End({c})
                  /\ Told(k, IF r.body = <<call[c].body>> THEN r.answer ELSE Error, GivenWithout(Pruned))
                  /\ UNCHANGED pending
               \/ /\ r = NoRecord /\ PendingFound(k)
                  /\ call' = [call EXCEPT ![c].pc = IF call[pending[k]].body = call[c].body THEN "waiting" ELSE "answered"]
                  /\ given' = GivenWithout(Pruned)
                  /\ UNCHANGED pending
               \/ /\ r = NoRecord /\ ~PendingFound(k)
                  /\ Owns(c)
                  /\ pending' = [pending EXCEPT ![k] = c]
                  /\ given' = GivenWithout(Pruned)
      /\ UNCHANGED orphaned

Waiters(c) == {d \in Calls : Keyed(c) /\ call[d].pc = "waiting" /\ call[d].key = call[c].key}

Unpended(c) == IF Keyed(c) THEN [pending EXCEPT ![call[c].key] = NoOwner] ELSE pending

(* A mutant: the exception reaches the owner only. *)
OperationFailsAlone(c) ==
  /\ End({c})
  /\ pending' = Unpended(c)
  /\ UNCHANGED <<records, saved, given, orphaned>>

(* The operation raised: everyone who waits is told, nothing is recorded. *)
OperationFails(c) ==
  /\ End({c} \cup Waiters(c))
  /\ pending' = Unpended(c)
  /\ UNCHANGED <<records, saved, given, orphaned>>

Recorded(c, answer) ==
  IF Keyed(c) THEN [records EXCEPT ![call[c].key] = [body |-> <<call[c].body>>, answer |-> answer, expired |-> FALSE]]
  ELSE records

(* The operation returned: the record is written before anyone is told.    *)
OperationReturns(c, answer) ==
  /\ records' = Recorded(c, answer)
  /\ saved' = IF Keyed(c) THEN records' ELSE saved
  /\ pending' = Unpended(c)
  /\ End({c} \cup Waiters(c))
  /\ Told(call[c].key, answer, given)
  /\ UNCHANGED orphaned

(* The write of the record fails: the caller gets the exception, the       *)
(* record stays in memory and the key stays pending.                       *)
PersistFails(c, answer) ==
  /\ Keyed(c)
  /\ records' = Recorded(c, answer)
  /\ End({c})
  /\ orphaned' = orphaned \cup {call[c].key}
  /\ UNCHANGED <<saved, pending, given>>

(* The retention of a record runs out. *)
Expire(k) ==
  /\ records[k] # NoRecord /\ ~records[k].expired
  /\ records' = [records EXCEPT ![k].expired = TRUE]
  /\ saved' = IF saved[k] = NoRecord THEN saved ELSE [saved EXCEPT ![k].expired = TRUE]
  /\ UNCHANGED <<call, pending, given, orphaned>>

(* A client makes a call again, with the same key and body. *)
Retry(c) ==
  /\ call[c].pc = "answered"
  /\ call' = [call EXCEPT ![c].pc = "idle"]
  /\ UNCHANGED <<records, saved, pending, given, orphaned>>

(* A restart: calls under way are cut off, and may be made again; a record *)
(* that was never written is lost.                                         *)
ForgetCalls ==
  /\ call' = [c \in Calls |-> IF call[c].pc \in {"waiting", "operating"} THEN [call[c] EXCEPT !.pc = "idle"] ELSE call[c]]
  /\ records' = saved
  /\ pending' = [k \in Keys |-> NoOwner]
  /\ given' = GivenWithout(saved)
  /\ orphaned' = {}
  /\ UNCHANGED saved
=============================================================================
