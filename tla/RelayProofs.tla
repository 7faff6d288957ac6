---------------------------- MODULE RelayProofs -----------------------------
(* The broker of the relay, for any number of agents, claims, works and     *)
(* generations: no work is left without somebody to end it, fenced work is  *)
(* dead, the first end of a work counts, and a response that passes for     *)
(* complete is all of it.                                                   *)
EXTENDS RelayBroker, WellFoundedInduction, TLAPS

(* Zenon proves what does not ask for the arithmetic of SMT.                *)
USE ZenonT(60)

RelayType ==
    /\ fence \in [Agents -> Nat]
    /\ invalidated \in [Agents -> Nat]
    /\ waiters \in [Agents -> SUBSET Calls]
    /\ calls \in [Calls -> CallRow \cup {NULL}]
    /\ works \in [Claims -> WorkRow \cup {NULL}]

(* A call that was given nothing holds nothing, and one whose future is     *)
(* pending waits for it.                                                    *)
CallInv ==
    \A w \in Calls : calls[w] # NULL /\ calls[w].fut # "set" =>
        /\ calls[w].work = NoClaim
        /\ calls[w].fut = "pending" => calls[w].pc = "waiting"

WaiterInv ==
    \A a \in Agents : \A w \in waiters[a] : calls[w] # NULL /\ calls[w].agent = a

(* An invalidation moves the fence too, so that what a claim is given later *)
(* is not older.                                                            *)
FenceInv == \A a \in Agents : invalidated[a] <= fence[a]

RelayInv ==
    RelayType /\ CallInv /\ WaiterInv /\ FenceInv /\ NoOrphanedWork /\ FencedWorkIsDead

(* The empty broker satisfies the invariant.                                *)
LEMMA RelayInitInv == RelayInit => RelayInv
BY NoneIsNoRow, SMT DEF RelayInit, RelayInv, RelayType, CallInv, WaiterInv, FenceInv, NoOrphanedWork,
       FencedWorkIsDead, Live

-----------------------------------------------------------------------------

(* What a step does to the works unless it makes one: none comes back to    *)
(* life, none changes hands, and those that ended stay as they are.         *)
WorksOnlyEnd ==
    /\ works' \in [Claims -> WorkRow \cup {NULL}]
    /\ \A c \in Claims :
          /\ works[c] = NULL => works'[c] = NULL
          /\ works[c] # NULL =>
                /\ works'[c] # NULL
                /\ works'[c].agent = works[c].agent /\ works'[c].generation = works[c].generation
                /\ ~Live(c) => works'[c].state = works[c].state /\ works'[c].reason = works[c].reason

(* A step that leaves the works alone ends none of them.                    *)
LEMMA KeptWorks ==
    ASSUME RelayType, UNCHANGED works
    PROVE  WorksOnlyEnd
BY DEF RelayType, WorksOnlyEnd

(* The effect of _terminate on the works it is given.                       *)
LEMMA TerminateWorks ==
    ASSUME RelayType, NEW cs, NEW state \in Terminated, NEW reason \in Reasons \cup {NULL},
           _terminate(cs, state, reason)
    PROVE  WorksOnlyEnd /\ \A c \in Claims \cap cs : ~Live(c)'
<1> DEFINE ended == {c \in cs : Live(c)}
<1>1. works' = [c \in Claims |->
            IF c \in ended THEN [works[c] EXCEPT !.state = state, !.reason = reason] ELSE works[c]]
  BY DEF _terminate
<1>2. ASSUME NEW c \in Claims, c \in ended
      PROVE  /\ works[c] \in WorkRow /\ works'[c] \in WorkRow
             /\ works'[c].state = state
             /\ works'[c].agent = works[c].agent /\ works'[c].generation = works[c].generation
  <2>1. works[c] \in WorkRow
    BY <1>2 DEF Live, RelayType
  <2>2. works'[c] = [works[c] EXCEPT !.state = state, !.reason = reason]
    BY <1>1, <1>2
  <2> QED BY <2>1, <2>2 DEF WorkRow
<1>3. ASSUME NEW c \in Claims, c \notin ended PROVE works'[c] = works[c]
  BY <1>1, <1>3
<1>4. works' \in [Claims -> WorkRow \cup {NULL}]
  <2>1. \A c \in Claims : works'[c] \in WorkRow \cup {NULL}
    BY <1>2, <1>3 DEF RelayType
  <2> QED BY <1>1, <2>1
<1>5. \A c \in Claims : works'[c] = NULL <=> works[c] = NULL
  BY <1>2, <1>3, NoneIsNoRow
<1>6. WorksOnlyEnd
  BY <1>2, <1>3, <1>4, <1>5 DEF WorksOnlyEnd, Live
<1>7. ASSUME NEW c \in Claims \cap cs PROVE ~Live(c)'
  BY <1>2, <1>3 DEF Live
<1> QED BY <1>6, <1>7

(* A step that only ends works, and leaves the claims alone, keeps it all.  *)
LEMMA OnlyEnding ==
    ASSUME RelayInv, WorksOnlyEnd, UNCHANGED <<fence, waiters, calls, invalidated>>
    PROVE  RelayInv'
<1>1. \A c \in Claims : Live(c)' => /\ Live(c)
                                    /\ works'[c].agent = works[c].agent
                                    /\ works'[c].generation = works[c].generation
  BY DEF WorksOnlyEnd, Live
<1>2. RelayType' /\ CallInv' /\ WaiterInv' /\ FenceInv'
  BY DEF RelayInv, RelayType, CallInv, WaiterInv, FenceInv, WorksOnlyEnd
<1>3. NoOrphanedWork'
  BY <1>1 DEF RelayInv, NoOrphanedWork
<1>4. FencedWorkIsDead'
  BY <1>1 DEF RelayInv, FencedWorkIsDead
<1> QED BY <1>2, <1>3, <1>4 DEF RelayInv

-----------------------------------------------------------------------------
(* The steps of the response and of its reader.                             *)

EndsOnly == WorksOnlyEnd /\ UNCHANGED <<fence, waiters, calls, invalidated>>

(* A deadline that passes changes the state of no work.                     *)
LEMMA LateWork ==
    ASSUME RelayType, NEW c \in Claims, DeadlinePasses(c)
    PROVE  EndsOnly
<1>1. works[c] \in WorkRow /\ works' = [works EXCEPT ![c].late = TRUE]
  BY DEF DeadlinePasses, RelayType
<1>2. works'[c] = [works[c] EXCEPT !.late = TRUE] /\ \A d \in Claims \ {c} : works'[d] = works[d]
  BY <1>1 DEF RelayType
<1>3. /\ works'[c] \in WorkRow /\ works'[c].agent = works[c].agent
      /\ works'[c].generation = works[c].generation /\ works'[c].state = works[c].state
      /\ works'[c].reason = works[c].reason
  <2> DEFINE row == [works[c] EXCEPT !.late = TRUE]
  <2>1. /\ row.agent = works[c].agent /\ row.generation = works[c].generation
        /\ row.state = works[c].state /\ row.reason = works[c].reason
    BY <1>1 DEF WorkRow
  <2>2. row \in WorkRow
    BY <1>1 DEF WorkRow
  <2> QED BY <1>2, <2>1, <2>2
<1>4. works' \in [Claims -> WorkRow \cup {NULL}]
  BY <1>1, <1>2, <1>3 DEF RelayType
<1>5. WorksOnlyEnd
  BY <1>1, <1>2, <1>3, <1>4, NoneIsNoRow DEF WorksOnlyEnd
<1> QED BY <1>5 DEF EndsOnly, DeadlinePasses, RestOfClaim

(* A refused upload ends its work or leaves it alone.                       *)
LEMMA RefusedEnds ==
    ASSUME RelayType, NEW c \in Claims, NEW from, Refused(c, from)
    PROVE  EndsOnly
BY TerminateWorks, KeptWorks DEF Refused, _expire_if_late, Terminated, Reasons, KeepWorks, EndsOnly, RestOfUpload

(* A response that starts leaves the work with its agent and generation.    *)
LEMMA StartedResponse ==
    ASSUME RelayType, NEW c \in Claims, NEW status \in {"ok", "error"}, start_response(c, status)
    PROVE  EndsOnly
<1>1. CASE Refused(c, "none")
  BY <1>1, RefusedEnds
<1>2. CASE Accepted(c) /\ works' = [works EXCEPT ![c].state = "responding", ![c].status = status] /\ RestOfUpload
  <2>1. works[c] \in WorkRow /\ Live(c)
    BY <1>2 DEF Accepted, Live, RelayType
  <2>2. /\ works'[c] = [works[c] EXCEPT !.state = "responding", !.status = status]
        /\ \A d \in Claims \ {c} : works'[d] = works[d]
    BY <1>2, <2>1 DEF RelayType
  <2>3. /\ works'[c] \in WorkRow /\ works'[c].agent = works[c].agent
        /\ works'[c].generation = works[c].generation
    BY <2>1, <2>2 DEF WorkRow
  <2>4. works' \in [Claims -> WorkRow \cup {NULL}]
    BY <1>2, <2>2, <2>3 DEF RelayType
  <2>5. WorksOnlyEnd
    BY <2>1, <2>2, <2>3, <2>4, NoneIsNoRow DEF WorksOnlyEnd
  <2> QED BY <1>2, <2>5 DEF EndsOnly, RestOfUpload
<1> QED BY <1>1, <1>2 DEF start_response

(* The steps of an upload only move a live work on, or end it.              *)
LEMMA UploadEnds ==
    ASSUME RelayType, NEW c \in Claims, UploadStep(c)
    PROVE  EndsOnly
<1> USE DEF Terminated, Reasons
<1>1. CASE \E status \in {"ok", "error"} : start_response(c, status)
  BY <1>1, StartedResponse
<1>2. CASE write(c)
  BY <1>2, RefusedEnds, KeptWorks DEF write, AppendChunk, KeepWorks, RestOfUpload, EndsOnly
<1>3. CASE WriteResumes(c)
  BY <1>3, TerminateWorks, KeptWorks
     DEF WriteResumes, StreamEnded, AppendChunk, KeepWorks, RestOfUpload, EndsOnly
<1>4. CASE finish(c)
  BY <1>4, TerminateWorks, RefusedEnds DEF finish, RestOfUpload, EndsOnly
<1>5. CASE UploadAborted(c)
  BY <1>5, TerminateWorks DEF UploadAborted, _expire_if_late, RestOfUpload, EndsOnly
<1>6. CASE \E retryable \in BOOLEAN : fail(c, retryable)
  BY <1>6, TerminateWorks DEF fail, _expire_if_late, EndsOnly
<1> QED BY <1>1, <1>2, <1>3, <1>4, <1>5, <1>6 DEF UploadStep

(* So do the steps of the reader.                                           *)
LEMMA ReadEnds ==
    ASSUME RelayType, NEW c \in Claims, ReadStep(c)
    PROVE  EndsOnly
<1>1. ASSUME aclose(c) PROVE WorksOnlyEnd
  BY <1>1, TerminateWorks DEF aclose, Terminated, Reasons
<1>2. ASSUME NEW from, _on_failure(c, from) PROVE EndsOnly
  BY <1>1, <1>2 DEF _on_failure, RestOfRead, EndsOnly
<1>3. CASE wait_response(c)
  BY <1>2, <1>3, KeptWorks DEF wait_response, KeepWorks, RestOfRead, EndsOnly
<1>4. CASE ReadChunk(c)
  BY <1>4, KeptWorks DEF ReadChunk, RestOfRead, EndsOnly
<1>5. CASE ReadEnd(c)
  BY <1>1, <1>2, <1>5 DEF ReadEnd, RestOfRead, EndsOnly
<1>6. CASE ReadTimeout(c)
  BY <1>1, <1>2, <1>6 DEF ReadTimeout, RestOfRead, EndsOnly
<1> QED BY <1>3, <1>4, <1>5, <1>6 DEF ReadStep

-----------------------------------------------------------------------------
(* The steps of the claims.                                                 *)

(* Only the row of one call changes, and the fence does not go back.        *)
LEMMA NewClaim ==
    ASSUME RelayInv, NEW w \in Calls, NEW a \in Agents, NEW g \in Generations, claim(w, a, g)
    PROVE  RelayInv' /\ WorksOnlyEnd
<1> DEFINE row == [agent |-> a, generation |-> g, work |-> NoClaim, fut |-> "pending", pc |-> "waiting"]
<1>1. /\ calls[w] = NULL /\ calls' = [calls EXCEPT ![w] = row]
      /\ fence' = [fence EXCEPT ![a] = Larger(@, g)]
      /\ waiters' = [waiters EXCEPT ![a] = @ \cup {w}]
      /\ UNCHANGED <<works, invalidated>>
  BY DEF claim, NewCall, KeepWorks, RestOfClaim
<1>2. row \in CallRow /\ row # NULL /\ g \in Nat
  BY NoneIsNoRow, RelayAssumption, SMT DEF CallRow, Generations
<1>3. calls'[w] = row /\ \A v \in Calls \ {w} : calls'[v] = calls[v]
  BY <1>1 DEF RelayInv, RelayType
<1>4. RelayType'
  BY <1>1, <1>2 DEF RelayInv, RelayType, Larger
<1>5. CallInv'
  BY <1>3, SMT DEF RelayInv, CallInv
<1>6. WaiterInv'
  <2> SUFFICES ASSUME NEW b \in Agents, NEW v \in waiters'[b]
               PROVE  calls'[v] # NULL /\ calls'[v].agent = b
    BY DEF WaiterInv
  <2>1. v \in Calls
    BY <1>4 DEF RelayType
  <2>2. CASE v = w
    BY <1>1, <1>2, <1>3, <2>2 DEF RelayInv, WaiterInv, RelayType
  <2>3. CASE v # w
    BY <1>1, <1>3, <2>1, <2>3 DEF RelayInv, WaiterInv, RelayType
  <2> QED BY <2>2, <2>3
<1>7. FenceInv'
  BY <1>1, <1>2, SMT DEF RelayInv, FenceInv, RelayType, Larger
<1>8. NoOrphanedWork'
  <2> SUFFICES ASSUME NEW c \in Claims, Live(c)
               PROVE  \E v \in Calls : calls'[v] # NULL /\ calls'[v].work = c /\ calls'[v].pc \in {"waiting", "returned"}
    BY <1>1 DEF NoOrphanedWork, Live
  <2>1. PICK v \in Calls : calls[v] # NULL /\ calls[v].work = c /\ calls[v].pc \in {"waiting", "returned"}
    BY DEF RelayInv, NoOrphanedWork
  <2> QED BY <1>1, <1>3, <2>1
<1>9. FencedWorkIsDead'
  BY <1>1 DEF RelayInv, FencedWorkIsDead, Live
<1> QED BY <1>1, <1>4, <1>5, <1>6, <1>7, <1>8, <1>9, KeptWorks DEF RelayInv

(* A step in which the future or the place of one call w changes: it stays  *)
(* the same call of the same agent, with the same work, or that work ended. *)
LEMMA OneCall ==
    ASSUME RelayInv, WorksOnlyEnd, NEW w \in Calls, calls[w] # NULL,
           NEW row \in CallRow, calls' = [calls EXCEPT ![w] = row],
           row.agent = calls[w].agent, row.work = calls[w].work,
           row.fut # "set" => /\ calls[w].fut # "set"
                              /\ row.fut = "pending" => row.pc = "waiting",
           row.pc \in {"waiting", "returned"} \/ \A c \in Claims : c = calls[w].work => ~Live(c)',
           waiters' \in [Agents -> SUBSET Calls],
           \A a \in Agents : waiters'[a] \subseteq waiters[a],
           UNCHANGED <<fence, invalidated>>
    PROVE  RelayInv'
<1>1. /\ calls'[w] = row /\ row # NULL /\ \A v \in Calls \ {w} : calls'[v] = calls[v]
      /\ calls' \in [Calls -> CallRow \cup {NULL}]
  BY NoneIsNoRow DEF RelayInv, RelayType
<1>2. RelayType'
  BY <1>1 DEF RelayInv, RelayType, WorksOnlyEnd
<1>3. CallInv'
  BY <1>1 DEF RelayInv, CallInv
<1>4. WaiterInv'
  <2> SUFFICES ASSUME NEW b \in Agents, NEW v \in waiters'[b]
               PROVE  calls'[v] # NULL /\ calls'[v].agent = b
    BY DEF WaiterInv
  <2>1. v \in Calls /\ calls[v] # NULL /\ calls[v].agent = b
    BY DEF RelayInv, WaiterInv, RelayType
  <2> QED BY <1>1, <2>1
<1>5. \A c \in Claims : Live(c)' => /\ Live(c)
                                    /\ works'[c].agent = works[c].agent
                                    /\ works'[c].generation = works[c].generation
  BY DEF WorksOnlyEnd, Live
<1>6. NoOrphanedWork'
  <2> SUFFICES ASSUME NEW c \in Claims, Live(c)'
               PROVE  \E v \in Calls : calls'[v] # NULL /\ calls'[v].work = c /\ calls'[v].pc \in {"waiting", "returned"}
    BY DEF NoOrphanedWork
  <2>1. PICK v \in Calls : calls[v] # NULL /\ calls[v].work = c /\ calls[v].pc \in {"waiting", "returned"}
    BY <1>5 DEF RelayInv, NoOrphanedWork
  <2>2. CASE v = w
    BY <1>1, <2>1, <2>2
  <2>3. CASE v # w
    BY <1>1, <2>1, <2>3
  <2> QED BY <2>2, <2>3
<1>7. FencedWorkIsDead' /\ FenceInv'
  BY <1>5 DEF RelayInv, FencedWorkIsDead, FenceInv
<1> QED BY <1>2, <1>3, <1>4, <1>6, <1>7 DEF RelayInv

(* A claim call that returns, is cancelled or is abandoned leaves no work   *)
(* behind.                                                                  *)
LEMMA ResumedClaim ==
    ASSUME RelayInv, NEW w \in Calls, ClaimReturns(w) \/ WaitCancelled(w) \/ _abandon_waiter(w)
    PROVE  RelayInv' /\ WorksOnlyEnd
<1>1. calls[w] # NULL /\ calls[w] \in CallRow /\ calls \in [Calls -> CallRow \cup {NULL}]
  BY DEF ClaimReturns, WaitCancelled, _abandon_waiter, Abandoned, Waiting, RelayInv, RelayType
<1>2. CASE ClaimReturns(w)
  <2> DEFINE row == [calls[w] EXCEPT !.pc = "returned"]
  <2>1. /\ calls' = [calls EXCEPT ![w] = row] /\ UNCHANGED <<works, waiters, fence, invalidated>>
        /\ calls[w].fut = "set"
    BY <1>1, <1>2 DEF ClaimReturns, KeepWorks, RestOfClaim
  <2>2. row \in CallRow /\ row.agent = calls[w].agent /\ row.work = calls[w].work /\ row.pc = "returned" /\ row.fut = calls[w].fut
    BY <1>1 DEF CallRow
  <2>3. WorksOnlyEnd
    BY <2>1, KeptWorks DEF RelayInv
  <2>4. waiters' \in [Agents -> SUBSET Calls] /\ \A a \in Agents : waiters'[a] \subseteq waiters[a]
    BY <2>1 DEF RelayInv, RelayType
  <2> HIDE DEF row
  <2> QED BY <1>1, <2>1, <2>2, <2>3, <2>4, OneCall
<1>3. CASE WaitCancelled(w)
  <2> DEFINE row == [calls[w] EXCEPT !.fut = "cancelled"]
  <2>1. /\ calls' = [calls EXCEPT ![w] = row] /\ UNCHANGED <<works, waiters, fence, invalidated>>
        /\ calls[w].fut = "pending" /\ calls[w].pc = "waiting"
    BY <1>1, <1>3 DEF WaitCancelled, Waiting, KeepWorks, RestOfClaim
  <2>2. row \in CallRow /\ row.agent = calls[w].agent /\ row.work = calls[w].work /\ row.pc = calls[w].pc /\ row.fut = "cancelled"
    BY <1>1 DEF CallRow
  <2>3. WorksOnlyEnd
    BY <2>1, KeptWorks DEF RelayInv
  <2>4. waiters' \in [Agents -> SUBSET Calls] /\ \A a \in Agents : waiters'[a] \subseteq waiters[a]
    BY <2>1 DEF RelayInv, RelayType
  <2> HIDE DEF row
  <2> QED BY <1>1, <2>1, <2>2, <2>3, <2>4, OneCall
<1>4. CASE _abandon_waiter(w)
  <2> DEFINE row == [calls[w] EXCEPT !.pc = "none"]
  <2>1. /\ calls' = [calls EXCEPT ![w] = row] /\ UNCHANGED <<fence, invalidated>>
        /\ waiters' = [waiters EXCEPT ![calls[w].agent] = @ \ {w}]
        /\ calls[w].fut # "pending"
    BY <1>1, <1>4 DEF _abandon_waiter, Abandoned, RestOfClaim
  <2>2. row \in CallRow /\ row.agent = calls[w].agent /\ row.work = calls[w].work /\ row.fut = calls[w].fut
    BY <1>1 DEF CallRow
  <2>3. waiters' \in [Agents -> SUBSET Calls] /\ \A a \in Agents : waiters'[a] \subseteq waiters[a]
    BY <2>1 DEF RelayInv, RelayType
  <2>4. WorksOnlyEnd /\ \A c \in Claims : c = calls[w].work => ~Live(c)'
    <3>1. CASE calls[w].fut = "set"
      <4>1. _terminate({calls[w].work}, "failed", "cancelled")
        BY <1>4, <3>1 DEF _abandon_waiter
      <4> QED BY <4>1, TerminateWorks DEF RelayInv, Terminated, Reasons
    <3>2. CASE calls[w].fut # "set"
      <4>1. UNCHANGED works
        BY <1>4, <3>2 DEF _abandon_waiter, KeepWorks
      <4>2. \A c \in Claims : c # calls[w].work
        BY <1>1, <3>2, RelayAssumption, SMT DEF RelayInv, CallInv, Claims, NoClaim
      <4> QED BY <4>1, <4>2, KeptWorks DEF RelayInv
    <3> QED BY <3>1, <3>2
  <2> HIDE DEF row
  <2> QED BY <1>1, <2>1, <2>2, <2>3, <2>4, OneCall
<1> QED BY <1>2, <1>3, <1>4

(* offer finds the oldest pending wait, if there is one.                    *)
LEMMA FirstPending ==
    ASSUME NEW S \in SUBSET Calls, S # {}
    PROVE  (CHOOSE v \in S : \A u \in S : v <= u) \in S
<1> DEFINE R == OpToRel(<, Nat)
<1>1. S \subseteq Nat
  BY RelayAssumption, SMT DEF Calls
<1>2. IsWellFoundedOn(R, Nat)
  BY NatLessThanWellFounded
<1>3. \A u, v \in Nat : <<u, v>> \in R <=> u < v
  BY DEF OpToRel
<1> HIDE DEF R
<1>4. PICK v \in S : \A u \in S : ~(<<u, v>> \in R)
  BY <1>1, <1>2, WFMin
<1>5. ASSUME NEW u \in S PROVE v <= u
  <2>1. u \in Nat /\ v \in Nat
    BY <1>1
  <2>2. ~(u < v)
    BY <1>3, <1>4, <2>1
  <2> QED BY <2>1, <2>2, SMT
<1> QED BY <1>5

(* The offer hands its work to a call that waits, or makes no work.         *)
LEMMA Offered ==
    ASSUME RelayInv, NEW c \in Claims, NEW a \in Agents, NEW mode \in Modes, offer(c, a, mode)
    PROVE  /\ RelayInv'
           /\ \A d \in Claims : works[d] # NULL => works'[d] = works[d]
<1> DEFINE pending == {v \in waiters[a] : calls[v].fut = "pending"}
           w == CHOOSE v \in pending : \A u \in pending : v <= u
<1>1. works[c] = NULL /\ UNCHANGED <<fence, invalidated>>
  BY DEF offer, RestOfClaim
<1>2. CASE pending = {} /\ waiters' = [waiters EXCEPT ![a] = {}] /\ UNCHANGED <<calls, works>>
  <2>1. waiters' \in [Agents -> SUBSET Calls] /\ \A b \in Agents : waiters'[b] \subseteq waiters[b]
    BY <1>2 DEF RelayInv, RelayType
  <2> QED BY <1>1, <1>2, <2>1, SMT DEF RelayInv, RelayType, CallInv, WaiterInv, FenceInv, NoOrphanedWork, FencedWorkIsDead, Live
<1>3. CASE pending # {} /\ waiters' = [waiters EXCEPT ![a] = {v \in @ : v > w}]
  <2>1. w \in pending
    BY <1>3, FirstPending DEF RelayInv, RelayType
  <2>2. waiters' \in [Agents -> SUBSET Calls] /\ \A b \in Agents : waiters'[b] \subseteq waiters[b]
    BY <1>3 DEF RelayInv, RelayType
  <2>3. /\ w \in Calls /\ calls[w] # NULL /\ calls[w] \in CallRow /\ calls[w].agent = a
        /\ calls[w].fut = "pending"
    BY <2>1 DEF RelayInv, RelayType, WaiterInv
  <2>4. calls[w].pc = "waiting" /\ calls[w].work = NoClaim
    BY <2>3 DEF RelayInv, CallInv
  <2>5. CASE calls[w].generation < fence[a] /\ calls' = [calls EXCEPT ![w].fut = "cancelled"] /\ UNCHANGED works
    <3> DEFINE row == [calls[w] EXCEPT !.fut = "cancelled"]
    <3>1. row \in CallRow /\ row.agent = calls[w].agent /\ row.work = calls[w].work /\ row.pc = calls[w].pc /\ row.fut = "cancelled"
      BY <2>3 DEF CallRow
    <3>2. calls' = [calls EXCEPT ![w] = row] /\ WorksOnlyEnd
      BY <2>5, KeptWorks DEF RelayInv
    <3>3. \A d \in Claims : works[d] # NULL => works'[d] = works[d]
      BY <2>5
    <3>4. row.fut # "set" /\ row.fut # "pending" /\ calls[w].fut # "set" /\ row.pc \in {"waiting", "returned"}
      BY <2>3, <2>4, <3>1
    <3> HIDE DEF row, w, pending
    <3>5. RelayInv'
      BY <1>1, <2>2, <2>3, <3>1, <3>2, <3>4, OneCall
    <3> QED BY <3>3, <3>5
  <2>6. CASE /\ ~(calls[w].generation < fence[a])
             /\ calls' = [calls EXCEPT ![w].fut = "set", ![w].work = c]
             /\ works' = [works EXCEPT ![c] =
                   [agent |-> a, generation |-> calls[w].generation, late |-> FALSE,
                    mode |-> mode, status |-> "ok", state |-> "claimed", reason |-> NULL]]
    <3> HIDE DEF w, pending
    <3> DEFINE row == [calls[w] EXCEPT !.fut = "set", !.work = c]
               job == [agent |-> a, generation |-> calls[w].generation, late |-> FALSE,
                       mode |-> mode, status |-> "ok", state |-> "claimed", reason |-> NULL]
    <3>1. /\ row \in CallRow /\ row.agent = a /\ row.work = c /\ row.pc = "waiting" /\ row.fut = "set"
          /\ calls[w].generation \in Generations
      BY <2>3, <2>4 DEF CallRow
    <3>2. /\ calls'[w] = row /\ row # NULL /\ \A v \in Calls \ {w} : calls'[v] = calls[v]
          /\ calls' \in [Calls -> CallRow \cup {NULL}]
      BY <2>3, <2>6, <3>1, NoneIsNoRow DEF RelayInv, RelayType
    <3>3. job \in WorkRow
      BY <3>1 DEF WorkRow
    <3>4. /\ works'[c] = job /\ \A d \in Claims \ {c} : works'[d] = works[d]
          /\ works' \in [Claims -> WorkRow \cup {NULL}]
      BY <2>6, <3>3 DEF RelayInv, RelayType
    <3>5. job.agent = a /\ job.generation = calls[w].generation
      OBVIOUS
    <3> HIDE DEF row, job
    <3>6. RelayType'
      BY <1>1, <2>2, <3>2, <3>4 DEF RelayInv, RelayType
    <3>7. CallInv'
      BY <3>1, <3>2 DEF RelayInv, CallInv
    <3>8. WaiterInv'
      <4> SUFFICES ASSUME NEW b \in Agents, NEW v \in waiters'[b]
                   PROVE  calls'[v] # NULL /\ calls'[v].agent = b
        BY DEF WaiterInv
      <4>1. v \in Calls /\ calls[v] # NULL /\ calls[v].agent = b
        BY <2>2 DEF RelayInv, WaiterInv, RelayType
      <4> QED BY <2>3, <3>1, <3>2, <4>1
    <3>9. NoOrphanedWork'
      <4> SUFFICES ASSUME NEW d \in Claims, Live(d)'
                   PROVE  \E v \in Calls : calls'[v] # NULL /\ calls'[v].work = d /\ calls'[v].pc \in {"waiting", "returned"}
        BY DEF NoOrphanedWork
      <4>1. CASE d = c
        BY <2>3, <3>1, <3>2, <4>1
      <4>2. CASE d # c
        <5>1. Live(d)
          BY <3>4, <4>2 DEF Live
        <5>2. PICK v \in Calls : calls[v] # NULL /\ calls[v].work = d /\ calls[v].pc \in {"waiting", "returned"}
          BY <5>1 DEF RelayInv, NoOrphanedWork
        <5>3. v # w
          BY <2>4, <5>2, RelayAssumption, SMT DEF Claims, NoClaim
        <5> QED BY <3>2, <5>2, <5>3
      <4> QED BY <4>1, <4>2
    <3>10. FencedWorkIsDead'
      <4> SUFFICES ASSUME NEW d \in Claims, Live(d)'
                   PROVE  works'[d].generation >= invalidated[works'[d].agent]
        BY <1>1 DEF FencedWorkIsDead
      <4>1. CASE d = c
        <5>1. calls[w].generation \in Nat /\ fence[a] \in Nat /\ invalidated[a] \in Nat /\ invalidated[a] <= fence[a]
          BY <3>1, RelayAssumption, SMT DEF Generations, RelayInv, RelayType, FenceInv
        <5> QED BY <2>6, <3>4, <3>5, <4>1, <5>1, SMT
      <4>2. CASE d # c
        BY <3>4, <4>2 DEF RelayInv, FencedWorkIsDead, Live
      <4> QED BY <4>1, <4>2
    <3>11. FenceInv'
      BY <1>1 DEF RelayInv, FenceInv
    <3> QED BY <1>1, <3>4, <3>6, <3>7, <3>8, <3>9, <3>10, <3>11 DEF RelayInv
  <2> QED BY <1>3, <2>5, <2>6 DEF offer
<1> QED BY <1>2, <1>3 DEF offer

(* An invalidation ends what is older and cancels the waits that are.       *)
LEMMA Invalidated ==
    ASSUME RelayInv, NEW a \in Agents, NEW g \in Generations, invalidate_agent(a, g)
    PROVE  RelayInv' /\ WorksOnlyEnd
<1> DEFINE old == {c \in Claims : Live(c) /\ works[c].agent = a /\ works[c].generation < g}
           stale == {w \in Calls : calls[w] # NULL /\ calls[w].generation < g}
<1>1. /\ _terminate(old, "invalid", "fenced")
      /\ calls' = [w \in Calls |-> IF w \in stale \cap waiters[a] /\ calls[w].fut = "pending"
                                  THEN [calls[w] EXCEPT !.fut = "cancelled"] ELSE calls[w]]
      /\ waiters' = [waiters EXCEPT ![a] = @ \ stale]
      /\ invalidated' = [invalidated EXCEPT ![a] = Larger(@, g)]
      /\ fence' = [fence EXCEPT ![a] = Larger(@, g)]
  BY DEF invalidate_agent, DropStale
<1>2. WorksOnlyEnd /\ \A c \in old : ~Live(c)'
  BY <1>1, TerminateWorks DEF RelayInv, Terminated, Reasons
<1>3. g \in Nat
  BY RelayAssumption, SMT DEF Generations
<1>4. ASSUME NEW w \in Calls, calls'[w] # calls[w]
      PROVE  /\ calls[w] \in CallRow /\ calls[w] # NULL /\ calls[w].fut = "pending"
             /\ calls'[w] \in CallRow /\ calls'[w] # NULL /\ calls'[w].fut = "cancelled"
             /\ calls'[w].agent = calls[w].agent /\ calls'[w].work = calls[w].work
             /\ calls'[w].pc = calls[w].pc
  <2>1. calls'[w] = [calls[w] EXCEPT !.fut = "cancelled"] /\ calls[w].fut = "pending" /\ calls[w] # NULL
    BY <1>1, <1>4
  <2>2. calls[w] \in CallRow
    BY <2>1 DEF RelayInv, RelayType
  <2> QED BY <2>1, <2>2, NoneIsNoRow, SMT DEF CallRow
<1>5. RelayType'
  <2>1. calls' \in [Calls -> CallRow \cup {NULL}]
    <3>1. \A w \in Calls : calls'[w] \in CallRow \cup {NULL}
      BY <1>4 DEF RelayInv, RelayType
    <3> QED BY <1>1, <3>1
  <2> QED BY <1>1, <1>2, <1>3, <2>1 DEF RelayInv, RelayType, WorksOnlyEnd, Larger
<1>6. CallInv'
  BY <1>4 DEF RelayInv, CallInv
<1>7. WaiterInv'
  <2> SUFFICES ASSUME NEW b \in Agents, NEW v \in waiters'[b]
               PROVE  calls'[v] # NULL /\ calls'[v].agent = b
    BY DEF WaiterInv
  <2>1. v \in Calls /\ calls[v] # NULL /\ calls[v].agent = b
    BY <1>1 DEF RelayInv, WaiterInv, RelayType
  <2> QED BY <1>4, <2>1
<1>8. FenceInv'
  BY <1>1, <1>3, SMT DEF RelayInv, FenceInv, RelayType, Larger
<1>9. \A c \in Claims : Live(c)' => /\ Live(c) /\ c \notin old
                                    /\ works'[c].agent = works[c].agent
                                    /\ works'[c].generation = works[c].generation
  BY <1>2 DEF WorksOnlyEnd, Live
<1>10. NoOrphanedWork'
  <2> SUFFICES ASSUME NEW c \in Claims, Live(c)'
               PROVE  \E v \in Calls : calls'[v] # NULL /\ calls'[v].work = c /\ calls'[v].pc \in {"waiting", "returned"}
    BY DEF NoOrphanedWork
  <2>1. PICK v \in Calls : calls[v] # NULL /\ calls[v].work = c /\ calls[v].pc \in {"waiting", "returned"}
    BY <1>9 DEF RelayInv, NoOrphanedWork
  <2> QED BY <1>4, <2>1
<1>11. FencedWorkIsDead'
  <2> SUFFICES ASSUME NEW c \in Claims, Live(c)'
               PROVE  works'[c].generation >= invalidated'[works'[c].agent]
    BY DEF FencedWorkIsDead
  <2>1. /\ works[c] \in WorkRow /\ works[c].generation >= invalidated[works[c].agent]
        /\ works[c].agent = a => ~(works[c].generation < g)
    BY <1>9 DEF RelayInv, FencedWorkIsDead, RelayType, Live
  <2>2. works[c].agent \in Agents /\ works[c].generation \in Nat
    BY <2>1, RelayAssumption, SMT DEF WorkRow, Generations
  <2> QED BY <1>1, <1>3, <1>9, <2>1, <2>2, SMT DEF RelayInv, RelayType, Larger
<1> QED BY <1>2, <1>5, <1>6, <1>7, <1>8, <1>10, <1>11 DEF RelayInv

-----------------------------------------------------------------------------

(* One step of the broker, the agents, the routes or the gateway.           *)
LEMMA RelayStep ==
    ASSUME RelayInv, [RelayNext]_relay_vars
    PROVE  /\ RelayInv'
           /\ \A c \in Claims : works[c] # NULL /\ ~Live(c) =>
                 works'[c].state = works[c].state /\ works'[c].reason = works[c].reason
<1> DEFINE Ended == \A c \in Claims : works[c] # NULL /\ ~Live(c) =>
                 works'[c].state = works[c].state /\ works'[c].reason = works[c].reason
<1>1. ASSUME WorksOnlyEnd PROVE Ended
  BY <1>1 DEF WorksOnlyEnd
<1>2. ASSUME EndsOnly PROVE RelayInv' /\ Ended
  BY <1>1, <1>2, OnlyEnding DEF EndsOnly
<1>3. CASE ClaimStep
  BY <1>1, <1>3, NewClaim, ResumedClaim DEF ClaimStep
<1>4. CASE \E c \in Claims, a \in Agents, mode \in Modes : offer(c, a, mode)
  BY <1>4, Offered
<1>5. CASE \E c \in Claims : DeadlinePasses(c) \/ UploadStep(c) \/ ReadStep(c)
  BY <1>2, <1>5, LateWork, UploadEnds, ReadEnds DEF RelayInv
<1>6. CASE \E a \in Agents, g \in Generations : invalidate_agent(a, g)
  BY <1>1, <1>6, Invalidated
<1>7. CASE UNCHANGED relay_vars
  BY <1>2, <1>7, KeptWorks DEF relay_vars, EndsOnly, RelayInv
<1> QED BY <1>3, <1>4, <1>5, <1>6, <1>7 DEF RelayNext

(* In every state of the broker the calls, works, waiters and fences        *)
(* agree.                                                                   *)
THEOREM RelayInvariant == RelaySpec => []RelayInv
BY RelayInitInv, RelayStep, PTL DEF RelaySpec

(* Live work always has a call that is about to resume with it or returned  *)
(* with it, whatever waits time out or are cancelled (broker.py claim,      *)
(* offer, _abandon_waiter).                                                 *)
THEOREM NoOrphans == RelaySpec => []NoOrphanedWork
BY RelayInvariant, PTL DEF RelayInv

(* Once invalidate_agent was called with a generation, no work of an older  *)
(* one is live: not what was live then and not what is offered later.       *)
THEOREM Fenced == RelaySpec => []FencedWorkIsDead
BY RelayInvariant, PTL DEF RelayInv

(* Whichever end of a work comes first, no later one changes it             *)
(* (broker.py _terminate).                                                  *)
THEOREM FirstEnd == RelaySpec => FirstEndWins
<1>1. RelayInv /\ [RelayNext]_relay_vars =>
        [\A c \in Claims : works[c] # NULL /\ ~Live(c) =>
            works'[c].state = works[c].state /\ works'[c].reason = works[c].reason]_relay_vars
  BY RelayStep
<1> QED BY <1>1, RelayInvariant, PTL DEF RelaySpec, FirstEndWins

-----------------------------------------------------------------------------
(* The bytes.  What was uploaded and not read is in the buffer; a stream    *)
(* has an end of file only after the upload was accepted, and nothing is    *)
(* uploaded after that.                                                     *)
StreamType ==
    /\ uploads \in [Claims -> [pc : {"none", "open", "writing", "accepted", "ended"}, sent : Nat]]
    /\ streams \in [Claims -> [buffered : Nat, first_byte : BOOLEAN, terminal : {"eof", NULL} \cup Reasons]]
    /\ readers \in [Claims -> [pc : Reading \cup Outcomes, got : Nat]]

WholeInv ==
    /\ StreamType
    /\ \A c \in Claims :
          /\ readers[c].got + streams[c].buffered = uploads[c].sent
          /\ streams[c].terminal = "eof" => uploads[c].pc = "accepted"
          /\ readers[c].pc = "complete" => uploads[c].pc = "accepted" /\ streams[c].buffered = 0

Streams == [buffered : Nat, first_byte : BOOLEAN, terminal : {"eof", NULL} \cup Reasons]

(* A step that leaves the buffers alone; only the streams of S may end well.*)
EndsWell(S) ==
    /\ streams' \in [Claims -> Streams]
    /\ \A c \in Claims :
          /\ streams'[c].buffered = streams[c].buffered
          /\ streams'[c].terminal = "eof" => streams[c].terminal = "eof" \/ c \in S

(* _terminate moves no chunk, and only a finished work ends its stream      *)
(* well.                                                                    *)
LEMMA TerminateStreams ==
    ASSUME StreamType, NEW cs, NEW state, NEW reason, _terminate(cs, state, reason),
           state = "finished" \/ reason \in Reasons
    PROVE  EndsWell(IF state = "finished" THEN cs ELSE {})
<1> DEFINE end == IF state = "finished" THEN "eof" ELSE reason
           ended == {c \in cs : Live(c)}
<1>1. streams' = [c \in Claims |-> IF c \in ended /\ streams[c].terminal = NULL
                                 THEN [streams[c] EXCEPT !.terminal = end] ELSE streams[c]]
  BY DEF _terminate
<1>2. end \in {"eof", NULL} \cup Reasons /\ (end = "eof" => state = "finished")
  BY DEF Reasons
<1> HIDE DEF end
<1>3. ASSUME NEW c \in Claims
      PROVE  /\ streams'[c] \in Streams /\ streams'[c].buffered = streams[c].buffered
             /\ streams'[c].terminal = streams[c].terminal \/ (streams'[c].terminal = end /\ c \in cs)
  <2>1. streams[c] \in Streams
    BY DEF StreamType, Streams
  <2>2. CASE streams'[c] = streams[c]
    BY <2>1, <2>2
  <2>3. CASE streams'[c] = [streams[c] EXCEPT !.terminal = end] /\ c \in cs
    BY <1>2, <2>1, <2>3 DEF Streams
  <2> QED BY <1>1, <2>2, <2>3
<1>4. streams' \in [Claims -> Streams]
  BY <1>1, <1>3
<1> QED BY <1>2, <1>3, <1>4 DEF EndsWell

(* A step that moves no chunk keeps the account of the streams.             *)
LEMMA KeptStreams ==
    ASSUME StreamType, UNCHANGED streams
    PROVE  EndsWell({})
BY DEF StreamType, Streams, EndsWell

(* A step that leaves the routes and the readers alone.                     *)
LEMMA NothingMoves ==
    ASSUME WholeInv, EndsWell({}), UNCHANGED <<uploads, readers>>
    PROVE  WholeInv'
BY DEF WholeInv, StreamType, EndsWell, Streams

(* A route goes on that has not finished; its stream ends well if it does.  *)
LEMMA RouteMoves ==
    ASSUME WholeInv, NEW c \in Claims, NEW to \in {"open", "writing", "accepted", "ended"},
           uploads[c].pc # "accepted", uploads' = [uploads EXCEPT ![c].pc = to],
           EndsWell(IF to = "accepted" THEN {c} ELSE {}), UNCHANGED readers
    PROVE  WholeInv'
<1>1. /\ uploads'[c].pc = to /\ uploads'[c].sent = uploads[c].sent
      /\ \A d \in Claims \ {c} : uploads'[d] = uploads[d]
      /\ uploads' \in [Claims -> [pc : {"none", "open", "writing", "accepted", "ended"}, sent : Nat]]
  BY SMT DEF WholeInv, StreamType
<1>2. StreamType'
  BY <1>1 DEF WholeInv, StreamType, EndsWell, Streams
<1>3. ASSUME NEW d \in Claims
      PROVE  /\ readers'[d].got + streams'[d].buffered = uploads'[d].sent
             /\ streams'[d].terminal = "eof" => uploads'[d].pc = "accepted"
             /\ readers'[d].pc = "complete" => uploads'[d].pc = "accepted" /\ streams'[d].buffered = 0
  <2>1. CASE d = c
    BY <1>1, <2>1 DEF WholeInv, EndsWell
  <2>2. CASE d # c
    BY <1>1, <2>2, SMT DEF WholeInv, EndsWell
  <2> QED BY <2>1, <2>2
<1> QED BY <1>2, <1>3 DEF WholeInv

(* A reader goes on; it is complete only at the end of a file, read whole.  *)
LEMMA ReaderMoves ==
    ASSUME WholeInv, NEW c \in Claims, NEW to \in Reading \cup Outcomes,
           readers' = [readers EXCEPT ![c].pc = to], EndsWell({}), UNCHANGED uploads,
           to = "complete" => streams[c].terminal = "eof" /\ streams[c].buffered = 0
    PROVE  WholeInv'
<1>1. /\ readers'[c].pc = to /\ readers'[c].got = readers[c].got
      /\ \A d \in Claims \ {c} : readers'[d] = readers[d]
      /\ readers' \in [Claims -> [pc : Reading \cup Outcomes, got : Nat]]
  BY DEF WholeInv, StreamType
<1>2. StreamType'
  BY <1>1 DEF WholeInv, StreamType, EndsWell, Streams
<1>3. ASSUME NEW d \in Claims
      PROVE  /\ readers'[d].got + streams'[d].buffered = uploads'[d].sent
             /\ streams'[d].terminal = "eof" => uploads'[d].pc = "accepted"
             /\ readers'[d].pc = "complete" => uploads'[d].pc = "accepted" /\ streams'[d].buffered = 0
  <2>1. CASE d = c
    BY <1>1, <2>1 DEF WholeInv, EndsWell
  <2>2. CASE d # c
    BY <1>1, <2>2 DEF WholeInv, EndsWell
  <2> QED BY <2>1, <2>2
<1> QED BY <1>2, <1>3 DEF WholeInv

(* A chunk goes into a stream, or comes out.                                *)
LEMMA ChunkIn ==
    ASSUME WholeInv, NEW c \in Claims, NEW from \in {"open", "writing"}, AppendChunk(c, from)
    PROVE  WholeInv'
<1>1. /\ uploads[c].pc # "accepted" /\ UNCHANGED readers
      /\ uploads' = [uploads EXCEPT ![c] = [pc |-> "open", sent |-> uploads[c].sent + 1]]
      /\ streams' = [streams EXCEPT ![c].buffered = @ + 1, ![c].first_byte = TRUE]
  BY DEF AppendChunk, RestOfUpload, WholeInv, StreamType
<1>2. /\ uploads'[c] = [pc |-> "open", sent |-> uploads[c].sent + 1] /\ uploads[c].sent \in Nat
      /\ \A d \in Claims \ {c} : uploads'[d] = uploads[d] /\ streams'[d] = streams[d]
      /\ uploads' \in [Claims -> [pc : {"none", "open", "writing", "accepted", "ended"}, sent : Nat]]
  BY <1>1, SMT DEF WholeInv, StreamType
<1>3. /\ streams'[c] = [streams[c] EXCEPT !.buffered = streams[c].buffered + 1, !.first_byte = TRUE]
      /\ streams[c] \in Streams
  BY <1>1 DEF WholeInv, StreamType, Streams
<1>4. streams'[c].buffered = streams[c].buffered + 1 /\ streams'[c].terminal = streams[c].terminal
  BY <1>3 DEF Streams
<1>5. streams'[c] \in Streams
  <2>1. streams[c].buffered + 1 \in Nat
    BY <1>3, SMT DEF Streams
  <2> QED BY <1>3, <2>1 DEF Streams
<1>6. streams' \in [Claims -> Streams]
  BY <1>1, <1>2, <1>5 DEF WholeInv, StreamType, Streams
<1>7. StreamType'
  BY <1>1, <1>2, <1>6 DEF WholeInv, StreamType, Streams
<1>8. ASSUME NEW d \in Claims
      PROVE  /\ readers'[d].got + streams'[d].buffered = uploads'[d].sent
             /\ streams'[d].terminal = "eof" => uploads'[d].pc = "accepted"
             /\ readers'[d].pc = "complete" => uploads'[d].pc = "accepted" /\ streams'[d].buffered = 0
  <2>1. CASE d = c
    BY <1>1, <1>2, <1>3, <1>4, <2>1, SMT DEF WholeInv, StreamType
  <2>2. CASE d # c
    <3>1. readers'[d] = readers[d] /\ streams'[d] = streams[d] /\ uploads'[d] = uploads[d]
      BY <1>1, <1>2, <2>2
    <3> QED BY <3>1 DEF WholeInv
  <2> QED BY <2>1, <2>2
<1> QED BY <1>7, <1>8 DEF WholeInv

(* A chunk that is read leaves the queue and is counted once.               *)
LEMMA ChunkOut ==
    ASSUME WholeInv, NEW c \in Claims, ReadChunk(c)
    PROVE  WholeInv'
<1> DEFINE to == IF readers[c].pc = "first" THEN AfterFirst(c) ELSE readers[c].pc
<1>1. /\ readers[c].pc \in {"first", "body", "draining"} /\ streams[c].buffered > 0
      /\ streams' = [streams EXCEPT ![c].buffered = @ - 1] /\ UNCHANGED uploads
      /\ readers' = [readers EXCEPT ![c] = [pc |-> to, got |-> readers[c].got + 1]]
  BY DEF ReadChunk, RestOfRead, WholeInv, StreamType
<1>2. to \in {"body", "draining"} /\ to \in Reading \cup Outcomes
  BY <1>1 DEF AfterFirst, Reading
<1> HIDE DEF to
<1>3. /\ readers'[c] = [pc |-> to, got |-> readers[c].got + 1] /\ readers[c].got \in Nat
      /\ \A d \in Claims \ {c} : readers'[d] = readers[d] /\ streams'[d] = streams[d]
      /\ readers' \in [Claims -> [pc : Reading \cup Outcomes, got : Nat]]
  BY <1>1, <1>2, SMT DEF WholeInv, StreamType
<1>4. /\ streams'[c] = [streams[c] EXCEPT !.buffered = streams[c].buffered - 1]
      /\ streams[c] \in Streams /\ streams[c].buffered \in Nat
  BY <1>1 DEF WholeInv, StreamType, Streams
<1>5. streams'[c].buffered = streams[c].buffered - 1 /\ streams'[c].terminal = streams[c].terminal
  BY <1>4 DEF Streams
<1>6. streams'[c] \in Streams
  <2>1. streams[c].buffered - 1 \in Nat
    BY <1>1, <1>4, SMT
  <2> QED BY <1>4, <2>1 DEF Streams
<1>7. StreamType'
  BY <1>1, <1>3, <1>6 DEF WholeInv, StreamType, Streams
<1>8. ASSUME NEW d \in Claims
      PROVE  /\ readers'[d].got + streams'[d].buffered = uploads'[d].sent
             /\ streams'[d].terminal = "eof" => uploads'[d].pc = "accepted"
             /\ readers'[d].pc = "complete" => uploads'[d].pc = "accepted" /\ streams'[d].buffered = 0
  <2>1. CASE d = c
    <3>1. readers'[c].pc # "complete" /\ readers'[c].got = readers[c].got + 1
      BY <1>2, <1>3, SMT
    <3>2. /\ readers[c].got + streams[c].buffered = uploads[c].sent /\ uploads'[c] = uploads[c]
          /\ streams[c].terminal = "eof" => uploads[c].pc = "accepted"
      BY <1>1 DEF WholeInv
    <3>3. readers'[c].got + streams'[c].buffered = uploads'[c].sent
      <4>1. \A x, y \in Nat : (x + 1) + (y - 1) = x + y
        BY SMT
      <4> QED BY <1>3, <1>4, <1>5, <3>1, <3>2, <4>1, SMT
    <3> QED BY <1>5, <2>1, <3>1, <3>2, <3>3
  <2>2. CASE d # c
    BY <1>1, <1>3, <2>2 DEF WholeInv
  <2> QED BY <2>1, <2>2
<1> QED BY <1>7, <1>8 DEF WholeInv

(* The steps of an upload keep the account of the chunks.                   *)
LEMMA WholeUpload ==
    ASSUME WholeInv, NEW c \in Claims, UploadStep(c)
    PROVE  WholeInv'
<1>0. StreamType
  BY DEF WholeInv
<1>1. ASSUME NEW from \in {"none", "open"}, Refused(c, from) PROVE WholeInv'
  <2>1. EndsWell({})
    BY <1>0, <1>1, TerminateStreams, KeptStreams, SMT DEF Refused, _expire_if_late, KeepWorks, Reasons
  <2>2. uploads[c].pc = from /\ uploads' = [uploads EXCEPT ![c].pc = "ended"] /\ UNCHANGED readers
    BY <1>1 DEF Refused, Upload, RestOfUpload
  <2> QED BY <2>1, <2>2, RouteMoves
<1>2. ASSUME NEW status, start_response(c, status) PROVE WholeInv'
  <2>1. CASE Refused(c, "none")
    BY <1>1, <2>1
  <2>2. CASE Upload(c, "none", "open") /\ UNCHANGED streams /\ RestOfUpload
    BY <1>0, <2>2, RouteMoves, KeptStreams DEF Upload, RestOfUpload
  <2> QED BY <1>2, <2>1, <2>2 DEF start_response
<1>3. CASE write(c)
  <2>1. CASE Refused(c, "open")
    BY <1>1, <2>1
  <2>2. CASE AppendChunk(c, "open")
    BY <2>2, ChunkIn
  <2>3. CASE Upload(c, "open", "writing") /\ KeepWorks /\ RestOfUpload
    BY <1>0, <2>3, RouteMoves, KeptStreams DEF Upload, KeepWorks, RestOfUpload
  <2> QED BY <1>3, <2>1, <2>2, <2>3 DEF write
<1>4. CASE WriteResumes(c)
  <2>1. CASE AppendChunk(c, "writing")
    BY <2>1, ChunkIn
  <2>2. CASE StreamEnded(c)
    BY <1>0, <2>2, RouteMoves, KeptStreams DEF StreamEnded, Upload, KeepWorks, RestOfUpload
  <2>3. CASE Upload(c, "writing", "ended") /\ _terminate({c}, "failed", "deadline_expired") /\ RestOfUpload
    <3>1. EndsWell({})
      BY <1>0, <2>3, TerminateStreams, SMT DEF Reasons
    <3> QED BY <2>3, <3>1, RouteMoves DEF Upload, RestOfUpload
  <2> QED BY <1>4, <2>1, <2>2, <2>3 DEF WriteResumes
<1>5. CASE finish(c)
  <2>1. CASE Refused(c, "open")
    BY <1>1, <2>1
  <2>2. CASE Upload(c, "open", "accepted") /\ _terminate({c}, "finished", NULL) /\ RestOfUpload
    <3>1. EndsWell({c})
      BY <1>0, <2>2, TerminateStreams
    <3> QED BY <2>2, <3>1, RouteMoves DEF Upload, RestOfUpload
  <2> QED BY <1>5, <2>1, <2>2 DEF finish
<1>6. CASE UploadAborted(c)
  <2>1. EndsWell({})
    BY <1>0, <1>6, TerminateStreams, SMT DEF UploadAborted, _expire_if_late, Reasons
  <2>2. uploads[c].pc # "accepted" /\ uploads' = [uploads EXCEPT ![c].pc = "ended"] /\ UNCHANGED readers
    BY <1>6 DEF UploadAborted, RestOfUpload
  <2> QED BY <2>1, <2>2, RouteMoves
<1>7. ASSUME NEW retryable, fail(c, retryable) PROVE WholeInv'
  <2>1. EndsWell({})
    BY <1>0, <1>7, TerminateStreams, SMT DEF fail, _expire_if_late, Reasons
  <2> QED BY <1>7, <2>1, NothingMoves DEF fail
<1> QED BY <1>2, <1>3, <1>4, <1>5, <1>6, <1>7 DEF UploadStep

(* The steps of a reader keep the account of the chunks, and it completes   *)
(* only at the end of the stream.                                           *)
LEMMA WholeRead ==
    ASSUME WholeInv, NEW c \in Claims, ReadStep(c)
    PROVE  WholeInv'
<1>0. StreamType
  BY DEF WholeInv
<1> USE DEF Reading, Outcomes
<1>1. ASSUME aclose(c) PROVE EndsWell({})
  BY <1>0, <1>1, TerminateStreams, SMT DEF aclose, Reasons
<1>2. ASSUME NEW from, _on_failure(c, from) PROVE WholeInv'
  <2>1. EndsWell({})
    BY <1>1, <1>2 DEF _on_failure
  <2>2. PICK to \in {"refused", "retry"} : readers' = [readers EXCEPT ![c].pc = to]
    BY <1>2 DEF _on_failure, Reader
  <2> QED BY <1>2, <2>1, <2>2, ReaderMoves DEF _on_failure, RestOfRead
<1>3. CASE wait_response(c)
  <2>1. CASE _on_failure(c, "waiting")
    BY <1>2, <2>1
  <2>2. CASE Reader(c, "waiting", IF works[c].mode = "buffered" THEN "body" ELSE "first") /\ KeepWorks /\ RestOfRead
    <3>1. PICK to \in {"body", "first"} : readers' = [readers EXCEPT ![c].pc = to]
      BY <2>2 DEF Reader
    <3> QED BY <1>0, <2>2, <3>1, ReaderMoves, KeptStreams DEF KeepWorks, RestOfRead
  <2> QED BY <1>3, <2>1, <2>2 DEF wait_response
<1>4. CASE ReadChunk(c)
  BY <1>4, ChunkOut
<1>5. CASE ReadEnd(c)
  <2> DEFINE eof == streams[c].terminal = "eof"
             retried == works[c].status = "error"
             to == IF retried THEN "retry" ELSE IF eof THEN "complete" ELSE "truncated"
  <2>1. CASE _on_failure(c, readers[c].pc)
    BY <1>2, <2>1
  <2>2. CASE Reader(c, readers[c].pc, to) /\ aclose(c) /\ RestOfRead
    <3>1. to \in Reading \cup Outcomes /\ (to = "complete" => streams[c].terminal = "eof")
      OBVIOUS
    <3>2. streams[c].buffered = 0 /\ readers' = [readers EXCEPT ![c].pc = to]
      BY <1>5, <2>2 DEF ReadEnd, Reader
    <3> HIDE DEF to
    <3> QED BY <1>1, <2>2, <3>1, <3>2, ReaderMoves DEF RestOfRead
  <2> QED BY <1>5, <2>1, <2>2 DEF ReadEnd
<1>6. CASE ReadTimeout(c)
  <2>1. CASE _on_failure(c, readers[c].pc)
    BY <1>2, <2>1
  <2>2. CASE Reader(c, "body", "truncated") /\ aclose(c) /\ RestOfRead
    BY <1>1, <2>2, ReaderMoves DEF Reader, RestOfRead
  <2> QED BY <1>6, <2>1, <2>2 DEF ReadTimeout
<1> QED BY <1>3, <1>4, <1>5, <1>6 DEF ReadStep

(* Every step of the broker keeps the account of the streams.               *)
LEMMA WholeStep ==
    ASSUME WholeInv, [RelayNext]_relay_vars
    PROVE  WholeInv'
<1>0. StreamType
  BY DEF WholeInv
<1>1. ASSUME UNCHANGED <<streams, uploads, readers>> PROVE WholeInv'
  BY <1>0, <1>1, KeptStreams, NothingMoves
<1>2. CASE ClaimStep
  <2>1. ASSUME NEW w \in Calls, _abandon_waiter(w) PROVE WholeInv'
    <3>1. EndsWell({})
      BY <1>0, <2>1, TerminateStreams, KeptStreams, SMT DEF _abandon_waiter, KeepWorks, Reasons
    <3> QED BY <2>1, <3>1, NothingMoves DEF _abandon_waiter, Abandoned, RestOfClaim
  <2> QED BY <1>1, <1>2, <2>1
          DEF ClaimStep, claim, NewCall, ClaimReturns, WaitCancelled, KeepWorks, RestOfClaim
<1>3. CASE \E c \in Claims, a \in Agents, mode \in Modes : offer(c, a, mode)
  BY <1>1, <1>3 DEF offer, RestOfClaim
<1>4. CASE \E c \in Claims : DeadlinePasses(c) \/ UploadStep(c) \/ ReadStep(c)
  BY <1>1, <1>4, WholeUpload, WholeRead DEF DeadlinePasses, RestOfClaim
<1>5. CASE \E a \in Agents, g \in Generations : invalidate_agent(a, g)
  <2>1. EndsWell({})
    BY <1>0, <1>5, TerminateStreams, SMT DEF invalidate_agent, DropStale, Reasons
  <2> QED BY <1>5, <2>1, NothingMoves DEF invalidate_agent, DropStale
<1>6. CASE UNCHANGED relay_vars
  BY <1>1, <1>6 DEF relay_vars
<1> QED BY <1>2, <1>3, <1>4, <1>5, <1>6 DEF RelayNext

(* A response that the gateway delivers as complete is one that the agent   *)
(* finished, with every chunk it uploaded (agent_routes.py, broker.py       *)
(* finish, proxy.py).                                                       *)
THEOREM Complete == RelaySpec => []CompleteIsWhole
<1>1. RelayInit => WholeInv
  BY NoneIsNoRow, SMT DEF RelayInit, WholeInv, StreamType, Reading, Outcomes
<1>2. WholeInv => CompleteIsWhole
  BY SMT DEF WholeInv, StreamType, CompleteIsWhole
<1> QED BY <1>1, <1>2, WholeStep, PTL DEF RelaySpec
=============================================================================
