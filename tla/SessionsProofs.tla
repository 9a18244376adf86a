---------------------------- MODULE SessionsProofs ----------------------------
(***************************************************************************)
(* What holds of sessions and uploads for any number of uploads, payloads  *)
(* and restarts, any timeout and any bound on time; and what the page may  *)
(* tell its user.                                                          *)
(***************************************************************************)
EXTENDS UploadPage, TLAPS

-----------------------------------------------------------------------------
(* The session store and the handler. *)

\* A session is never extended beyond the timeout of its last use.
Window == \A t \in Tokens : expires[t] <= used[t] + Timeout

(* A record stands for an upload that was done, and once one is done there is
   a record, which only a restart removes. *)
RecordIsBacked ==
    record # NoRecord => \E v \in Uploads : at[v] = "done" /\ payload[v] = record
DoneIsRecorded == (\E v \in Uploads : at[v] = "done") => record # NoRecord
RepeatsAreRecorded == repeats # {} => record # NoRecord

SInv ==
    /\ TypeOK /\ Window
    /\ RecordIsBacked /\ DoneIsRecorded /\ RepeatsAreRecorded
    /\ AnsweredIsNotRepeated

LEMMA Anything == AnyToken \in Tokens /\ AnyPayload \in Payloads
  BY SomethingToSend DEF AnyToken, AnyPayload

LEMMA InitSInv == Init => SInv
<1> SUFFICES ASSUME Init PROVE SInv
  OBVIOUS
<1>1. TypeOK
  BY Anything, BoundsAreNatural DEF Init, TypeOK, Stages
<1>2. Window
  <2>1. Timeout \in Nat
    BY BoundsAreNatural
  <2>2. \A t \in Tokens : expires[t] = 0 /\ used[t] = 0
    BY DEF Init
  <2>3. 0 <= 0 + Timeout
    BY <2>1
  <2> QED BY <2>2, <2>3 DEF Window
<1>3. RecordIsBacked /\ DoneIsRecorded /\ RepeatsAreRecorded /\ AnsweredIsNotRepeated
  BY DEF Init, RecordIsBacked, DoneIsRecorded, RepeatsAreRecorded, AnsweredIsNotRepeated
<1> QED BY <1>1, <1>2, <1>3 DEF SInv

LEMMA StepType == TypeOK /\ [Next]_vars => TypeOK'
<1> SUFFICES ASSUME TypeOK, [Next]_vars PROVE TypeOK'
  OBVIOUS
<1> USE BoundsAreNatural, Anything DEF TypeOK, Stages, Finals
<1>1. ASSUME NEW t \in Tokens, SignIn(t) PROVE TypeOK'
  BY <1>1 DEF SignIn, Expiry, requestVars, keyVars
<1>2. ASSUME NEW t \in Tokens, LogOut(t) PROVE TypeOK'
  BY <1>2 DEF LogOut, Expiry, requestVars, keyVars
<1>3. ASSUME NEW t \in Tokens, Poll(t) PROVE TypeOK'
  BY <1>3 DEF Poll, Expiry, requestVars, keyVars
<1>4. ASSUME NEW u \in Uploads, NEW t \in Tokens, NEW p \in Payloads, Send(u, t, p)
      PROVE  TypeOK'
  BY <1>4 DEF Send, sessionVars
<1>5. ASSUME NEW u \in Uploads, UploadReturns(u) PROVE TypeOK'
  BY <1>5 DEF UploadReturns, Goes, sessionVars, keyVars
<1>6. ASSUME NEW u \in Uploads, Touch(u) PROVE TypeOK'
  BY <1>6 DEF Touch, Goes, Expiry, keyVars
<1>7. ASSUME NEW u \in Uploads, Expire(u) PROVE TypeOK'
  BY <1>7 DEF Expire, Goes, Forget, keyVars
<1>8. ASSUME NEW u \in Uploads, StartUpload(u) PROVE TypeOK'
  BY <1>8 DEF StartUpload, Goes, Forget, Check, sessionVars, keyVars
<1>9. ASSUME NEW u \in Uploads, Succeed(u) PROVE TypeOK'
  BY <1>9 DEF Succeed, Goes, Forget, sessionVars
<1>10. ASSUME NEW u \in Uploads, Fail(u) PROVE TypeOK'
  BY <1>10 DEF Fail, Goes, Forget, sessionVars, keyVars
<1>11. CASE Tick
  BY <1>11 DEF Tick, sessionVars, requestVars, keyVars
<1>12. CASE Restart
  BY <1>12 DEF Restart
<1>13. CASE UNCHANGED vars
  BY <1>13 DEF vars, sessionVars, requestVars, keyVars
<1> QED
  BY <1>1, <1>2, <1>3, <1>4, <1>5, <1>6, <1>7, <1>8, <1>9, <1>10, <1>11, <1>12, <1>13
     DEF Next, Handler

LEMMA StepWindow == TypeOK /\ Window /\ [Next]_vars => Window'
<1> SUFFICES ASSUME TypeOK, Window, [Next]_vars PROVE Window'
  OBVIOUS
<1> USE BoundsAreNatural DEF TypeOK, Window
<1>1. ASSUME NEW t \in Tokens, SignIn(t) \/ LogOut(t) \/ Poll(t) PROVE Window'
  BY <1>1 DEF SignIn, LogOut, Poll, Expiry
<1>2. ASSUME NEW u \in Uploads, Touch(u) PROVE Window'
  <2>1. token[u] \in Tokens /\ seenAt[u] \in Nat
    OBVIOUS
  <2>2. expires'[token[u]] = seenAt[u] + Timeout /\ used'[token[u]] >= seenAt[u]
    BY <1>2, <2>1 DEF Touch, Expiry
  <2>3. \A t \in Tokens : t # token[u] => expires'[t] = expires[t] /\ used'[t] = used[t]
    BY <1>2 DEF Touch
  <2>4. used' \in [Tokens -> Nat]
    BY <1>2, <2>1 DEF Touch
  <2> QED BY <2>1, <2>2, <2>3, <2>4
<1>3. CASE Restart
  BY <1>3 DEF Restart
<1>4. CASE UNCHANGED <<expires, used>>
  BY <1>4
<1> QED
  BY <1>1, <1>2, <1>3, <1>4
     DEF Next, Handler, Send, UploadReturns, Expire, StartUpload, Succeed, Fail, Tick, vars,
         sessionVars

(* A step of one upload that leaves the key alone, and neither answers it with
   success nor, when there is a record, lets it run. *)
LEMMA Kept ==
    ASSUME SInv, TypeOK', UNCHANGED keyVars, NEW u \in Uploads,
           \A v \in Uploads \ {u} : at'[v] = at[v] /\ payload'[v] = payload[v],
           at[u] # "done", at'[u] # "done",
           at'[u] = "uploading" => record = NoRecord,
           at'[u] \in {"uploaded", "rejected"} => at[u] = "uploading"
    PROVE  /\ RecordIsBacked' /\ DoneIsRecorded' /\ RepeatsAreRecorded'
           /\ AnsweredIsNotRepeated'
<1>1. RecordIsBacked'
  BY DEF SInv, RecordIsBacked, keyVars
<1>2. DoneIsRecorded' /\ RepeatsAreRecorded'
  BY DEF SInv, DoneIsRecorded, RepeatsAreRecorded, keyVars
<1>3. AnsweredIsNotRepeated'
  <2> SUFFICES ASSUME NEW w \in repeats
               PROVE  at'[w] \notin {"uploading", "uploaded", "rejected", "done"}
    BY DEF keyVars, AnsweredIsNotRepeated
  <2>1. w \in Uploads /\ record # NoRecord
    BY DEF SInv, TypeOK, RepeatsAreRecorded
  <2> QED BY <2>1 DEF SInv, AnsweredIsNotRepeated
<1> QED BY <1>1, <1>2, <1>3

\* A step that changes no request and no record.
LEMMA KeySame ==
    ASSUME SInv, UNCHANGED keyVars, UNCHANGED <<at, payload>>
    PROVE  /\ RecordIsBacked' /\ DoneIsRecorded' /\ RepeatsAreRecorded'
           /\ AnsweredIsNotRepeated'
<1>1. RecordIsBacked'
  BY DEF SInv, RecordIsBacked, keyVars
<1>2. DoneIsRecorded' /\ RepeatsAreRecorded'
  BY DEF SInv, DoneIsRecorded, RepeatsAreRecorded, keyVars
<1>3. AnsweredIsNotRepeated'
  <2> SUFFICES ASSUME NEW u \in repeats
               PROVE  at'[u] \notin {"uploading", "uploaded", "rejected", "done"}
    BY DEF keyVars, AnsweredIsNotRepeated
  <2> QED BY DEF SInv, TypeOK, AnsweredIsNotRepeated
<1> QED BY <1>1, <1>2, <1>3

LEMMA StepKey == SInv /\ [Next]_vars =>
    /\ RecordIsBacked' /\ DoneIsRecorded' /\ RepeatsAreRecorded'
    /\ AnsweredIsNotRepeated'
<1> DEFINE Goal == /\ RecordIsBacked' /\ DoneIsRecorded' /\ RepeatsAreRecorded'
                   /\ AnsweredIsNotRepeated'
<1> SUFFICES ASSUME SInv, [Next]_vars PROVE Goal
  OBVIOUS
<1>t. TypeOK /\ TypeOK'
  BY StepType DEF SInv
<1>1. ASSUME NEW t \in Tokens, SignIn(t) \/ LogOut(t) \/ Poll(t) PROVE Goal
  BY <1>1, KeySame DEF SignIn, LogOut, Poll, requestVars
<1>2. ASSUME NEW u \in Uploads, NEW t \in Tokens, NEW p \in Payloads, Send(u, t, p)
      PROVE  Goal
  <2>1. /\ record' = record /\ at[u] = "unsent"
        /\ at'[u] \in {"refused", "stale", "live"}
        /\ \A v \in Uploads \ {u} : at'[v] = at[v] /\ payload'[v] = payload[v]
    BY <1>2, <1>t DEF Send, TypeOK
  <2>2. RecordIsBacked' /\ DoneIsRecorded'
    BY <2>1 DEF SInv, RecordIsBacked, DoneIsRecorded
  <2>3. CASE \E v \in Uploads : at[v] = "done"
    <3>1. repeats' = repeats \cup {u}
      BY <1>2, <2>3 DEF Send
    <3>2. RepeatsAreRecorded'
      BY <2>1, <2>3 DEF SInv, DoneIsRecorded, RepeatsAreRecorded
    <3>3. AnsweredIsNotRepeated'
      <4> SUFFICES ASSUME NEW w \in repeats'
                   PROVE  at'[w] \notin {"uploading", "uploaded", "rejected", "done"}
        BY DEF AnsweredIsNotRepeated
      <4> QED BY <2>1, <3>1, <1>t DEF SInv, TypeOK, AnsweredIsNotRepeated
    <3> QED BY <2>2, <3>2, <3>3
  <2>4. CASE ~\E v \in Uploads : at[v] = "done"
    <3>1. repeats' = repeats
      BY <1>2, <2>4 DEF Send
    <3> QED BY <2>1, <2>2, <3>1, <1>t
            DEF SInv, TypeOK, RepeatsAreRecorded, AnsweredIsNotRepeated
  <2> QED BY <2>3, <2>4
<1>3. ASSUME NEW u \in Uploads, UploadReturns(u) PROVE Goal
  <2>1. /\ UNCHANGED keyVars /\ at[u] = "uploading" /\ at'[u] \in {"uploaded", "rejected"}
        /\ \A v \in Uploads \ {u} : at'[v] = at[v] /\ payload'[v] = payload[v]
    BY <1>3, <1>t DEF UploadReturns, Goes, TypeOK
  <2> QED BY <2>1, <1>t, Kept
<1>4. ASSUME NEW u \in Uploads, Touch(u) PROVE Goal
  <2>1. /\ UNCHANGED keyVars /\ at[u] = "live" /\ at'[u] = "accepted"
        /\ \A v \in Uploads \ {u} : at'[v] = at[v] /\ payload'[v] = payload[v]
    BY <1>4, <1>t DEF Touch, Goes, TypeOK
  <2> QED BY <2>1, <1>t, Kept
<1>5. ASSUME NEW u \in Uploads, Expire(u) PROVE Goal
  <2>1. /\ UNCHANGED keyVars /\ at[u] = "stale" /\ at'[u] = "refused"
        /\ \A v \in Uploads \ {u} : at'[v] = at[v] /\ payload'[v] = payload[v]
    BY <1>5, <1>t DEF Expire, Goes, Forget, TypeOK
  <2> QED BY <2>1, <1>t, Kept
<1>6. ASSUME NEW u \in Uploads, StartUpload(u) PROVE Goal
  <2>1. /\ UNCHANGED keyVars /\ at[u] = "accepted" /\ at'[u] = Check(u)
        /\ \A v \in Uploads \ {u} : at'[v] = at[v] /\ payload'[v] = payload[v]
    BY <1>6, <1>t DEF StartUpload, Goes, Forget, TypeOK
  <2>2. at'[u] \in {"uploading", "replayed", "conflict"}
    BY <2>1 DEF Check
  <2>3. at'[u] = "uploading" => record = NoRecord
    BY <2>1 DEF Check
  <2> QED BY <2>1, <2>2, <2>3, <1>t, Kept
<1>7. ASSUME NEW u \in Uploads, Succeed(u) PROVE Goal
  <2>1. /\ repeats' = repeats /\ record' = payload[u] /\ at[u] = "uploaded"
        /\ at'[u] = "done" /\ payload'[u] = payload[u]
        /\ \A v \in Uploads \ {u} : at'[v] = at[v]
    BY <1>7, <1>t DEF Succeed, Goes, Forget, TypeOK, Finals
  <2>2. payload[u] # NoRecord
    BY <1>t, SomethingToSend DEF TypeOK
  <2>3. u \notin repeats
    BY <2>1 DEF SInv, AnsweredIsNotRepeated
  <2> QED BY <2>1, <2>2, <2>3, <1>t
          DEF SInv, TypeOK, RecordIsBacked, DoneIsRecorded, RepeatsAreRecorded,
              AnsweredIsNotRepeated
<1>8. ASSUME NEW u \in Uploads, Fail(u) PROVE Goal
  <2>1. /\ UNCHANGED keyVars /\ at[u] = "rejected" /\ at'[u] = "failed"
        /\ \A v \in Uploads \ {u} : at'[v] = at[v] /\ payload'[v] = payload[v]
    BY <1>8, <1>t DEF Fail, Goes, Forget, TypeOK
  <2> QED BY <2>1, <1>t, Kept
<1>9. CASE Restart
  BY <1>9 DEF Restart, RecordIsBacked, DoneIsRecorded, RepeatsAreRecorded,
              AnsweredIsNotRepeated
<1>10. CASE Tick \/ UNCHANGED vars
  BY <1>10, KeySame DEF Tick, vars, requestVars
<1> QED
  BY <1>1, <1>2, <1>3, <1>4, <1>5, <1>6, <1>7, <1>8, <1>9, <1>10 DEF Next, Handler

LEMMA StepSInv == SInv /\ [Next]_vars => SInv'
  BY StepType, StepWindow, StepKey DEF SInv

LEMMA Inductive == Spec => []SInv
  BY InitSInv, StepSInv, PTL DEF Spec

(* Sessions, requests and the record stay within their types. *)
THEOREM TypeCorrect == Spec => []TypeOK
  BY Inductive, PTL DEF SInv

(* An upload sent after another of its key was answered does not run, however
   many overlap and in whatever order their answers are recorded. *)
THEOREM AnsweredStays == Spec => []AnsweredIsNotRepeated
  BY Inductive, PTL DEF SInv

(* No request is accepted later than the timeout after the session's last use,
   however long the threads that slide the session are delayed. *)
THEOREM WithinWindow == Spec => AcceptedWithinWindow
<1> DEFINE A == \A u \in Uploads :
                   at[u] = "unsent" /\ at'[u] = "live" => now <= used[token'[u]] + Timeout
<1>1. SInv /\ [Next]_vars => [A]_vars
  <2> SUFFICES ASSUME SInv, Next, NEW w \in Uploads, at[w] = "unsent", at'[w] = "live"
               PROVE  now <= used[token'[w]] + Timeout
    BY DEF vars
  <2>t. TypeOK /\ Window /\ Timeout \in Nat /\ MaxTime \in Nat
    BY BoundsAreNatural DEF SInv
  <2>1. ASSUME NEW u \in Uploads, NEW t \in Tokens, NEW p \in Payloads, Send(u, t, p)
        PROVE  now <= used[token'[w]] + Timeout
    <3>1. w = u
      BY <2>1, <2>t DEF Send, TypeOK
    <3>2. token'[w] = t /\ ~PastExpiry(t)
      BY <2>1, <2>t, <3>1 DEF Send, TypeOK
    <3>3. now \in Nat /\ expires[t] \in Nat /\ used[t] \in Nat
      BY <2>t DEF TypeOK
    <3> QED BY <2>t, <3>2, <3>3 DEF PastExpiry, Window
  <2>2. CASE ~\E u \in Uploads, t \in Tokens, p \in Payloads : Send(u, t, p)
    <3>1. \/ UNCHANGED at
          \/ Restart
          \/ \E u \in Uploads : at[u] # "unsent" /\ at' = [at EXCEPT ![u] = at'[u]]
      BY <2>2, <2>t DEF Next, Handler, SignIn, LogOut, Poll, UploadReturns, Touch, Expire, Goes,
         StartUpload, Succeed, Fail, Tick, requestVars, TypeOK
    <3> QED BY <3>1, <2>t DEF Restart, TypeOK
  <2> QED BY <2>1, <2>2
<1> QED BY <1>1, Inductive, PTL DEF Spec, AcceptedWithinWindow

-----------------------------------------------------------------------------
(* The page. *)

\* Uploads arrive in order, and the page waits for the last of them.
InOrder == \A u, v \in Uploads : u < v /\ at[u] = "unsent" => at[v] = "unsent"
WaitsForLast == waiting # 0 => \A v \in Uploads : waiting < v => at[v] = "unsent"

PInv == SInv /\ PageTypeOK /\ InOrder /\ WaitsForLast

LEMMA PageStepIsStep == PageTypeOK /\ [PageNext]_allVars => [Next]_vars
<1> SUFFICES ASSUME PageTypeOK, [PageNext]_allVars PROVE [Next]_vars
  OBVIOUS
<1>1. CASE Backend
  BY <1>1 DEF Backend, Next
<1>2. ASSUME NEW u \in Uploads, Click(u) PROVE Next
  BY <1>2 DEF Click, PageTypeOK, Next
<1>3. CASE GivesUp \/ Leaves \/ UNCHANGED allVars
  BY <1>3 DEF GivesUp, Leaves, allVars
<1> QED BY <1>1, <1>2, <1>3 DEF PageNext

LEMMA BackendSendsNothing ==
    ASSUME TypeOK, Backend, NEW v \in Uploads
    PROVE  at'[v] = "unsent" <=> at[v] = "unsent"
<1>1. ASSUME NEW u \in Uploads, Handler(u) \/ UploadReturns(u)
      PROVE  at'[v] = "unsent" <=> at[v] = "unsent"
  <2>1. at[u] # "unsent" /\ at'[u] # "unsent" /\ \A w \in Uploads \ {u} : at'[w] = at[w]
    BY <1>1 DEF Handler, UploadReturns, Touch, Expire, StartUpload, Succeed, Fail, Goes, Check,
                TypeOK
  <2> QED BY <2>1
<1>2. CASE Restart
  BY <1>2 DEF Restart
<1>3. CASE UNCHANGED at
  BY <1>3
<1> QED
  BY <1>1, <1>2, <1>3 DEF Backend, SignIn, LogOut, Poll, Tick, requestVars

LEMMA StepPInv == PInv /\ [PageNext]_allVars => PInv'
<1> SUFFICES ASSUME PInv, [PageNext]_allVars PROVE PInv'
  OBVIOUS
<1>1. SInv'
  BY PageStepIsStep, StepSInv DEF PInv
<1>t. TypeOK /\ TypeOK' /\ \A u \in Uploads : u \in Nat /\ u # 0
  BY <1>1, BoundsAreNatural DEF PInv, SInv, Uploads
<1>2. CASE Backend /\ Reacts
  <2>1. InOrder'
    BY <1>2, <1>t, BackendSendsNothing DEF PInv, InOrder
  <2>2. waiting' \in {0, waiting}
    BY <1>2 DEF Reacts, WaitsFor
  <2>3. WaitsForLast'
    BY <1>2, <1>t, <2>2, BackendSendsNothing DEF PInv, WaitsForLast
  <2>4. PageTypeOK'
    BY <1>2, <1>t DEF PInv, PageTypeOK, Reacts, WaitsFor, NonceAfter
  <2> QED BY <1>1, <2>1, <2>3, <2>4 DEF PInv
<1>3. ASSUME NEW u \in Uploads, Click(u) PROVE PInv'
  <2>1. PICK t \in Tokens, p \in Payloads :
            /\ Send(u, t, p)
            /\ mine' = t
            /\ waiting' = IF at'[u] \in Finals THEN 0 ELSE u
    BY <1>3 DEF Click, PInv, PageTypeOK
  <2>2. /\ at[u] = "unsent" /\ at'[u] # "unsent"
        /\ \A v \in Uploads : v < u => at[v] # "unsent"
        /\ \A v \in Uploads \ {u} : at'[v] = at[v]
    BY <2>1, <1>t DEF Send, TypeOK, Uploads
  <2>3. InOrder'
    BY <2>2, <1>t DEF PInv, InOrder
  <2>4. WaitsForLast'
    BY <2>1, <2>2, <1>t DEF PInv, InOrder, WaitsForLast
  <2>5. PageTypeOK'
    BY <1>3, <2>1, <1>t DEF Click, PInv, PageTypeOK
  <2> QED BY <1>1, <2>3, <2>4, <2>5 DEF PInv
<1>4. CASE GivesUp \/ Leaves \/ UNCHANGED allVars
  <2>1. UNCHANGED at
    BY <1>4 DEF GivesUp, Leaves, allVars, vars, requestVars
  <2> QED
    BY <1>1, <1>4, <2>1
       DEF GivesUp, Leaves, allVars, pageVars, PInv, PageTypeOK, InOrder, WaitsForLast
<1> QED BY <1>2, <1>3, <1>4 DEF PageNext

LEMMA PageInductive == PageSpec => []PInv
<1>1. PageInit => PInv
  BY InitSInv, Anything
     DEF PageInit, Init, PInv, SInv, TypeOK, PageTypeOK, InOrder, WaitsForLast
<1> QED BY <1>1, StepPInv, PTL DEF PageSpec

(* The page, whatever its user does, uses sessions and uploads as Sessions lets
   any client: what holds of Spec holds behind the page. *)
THEOREM PageUsesSessions == PageSpec => Spec
<1>1. PageInit => Init
  BY DEF PageInit
<1>2. PInv /\ [PageNext]_allVars => [Next]_vars
  BY PageStepIsStep DEF PInv
<1> QED BY <1>1, <1>2, PageInductive, PTL DEF PageSpec, Spec

(* The page waits only for an upload of the key it keeps. *)
THEOREM PageTypeCorrect == PageSpec => []PageTypeOK
  BY PageInductive, PTL DEF PInv

\* What the page waits for is answered by a step of its handler.
LEMMA AnswerComesFromHandler ==
    ASSUME PInv, TypeOK', [PageNext]_allVars, NEW u \in Uploads,
           Shown(u, {"done", "replayed", "conflict"})
    PROVE  Succeed(u) \/ StartUpload(u)
<1>t. TypeOK /\ at[u] \notin Finals /\ waiting # 0
  BY BoundsAreNatural DEF PInv, SInv, PageTypeOK, Shown, Uploads
<1>1. at'[u] # at[u]
  BY <1>t DEF Shown, Finals
<1>2. Backend
  BY <1>1, <1>t DEF PageNext, Click, GivesUp, Leaves, allVars, vars, requestVars
<1>3. ASSUME NEW w \in Uploads, Handler(w) \/ UploadReturns(w)
      PROVE  Succeed(u) \/ StartUpload(u)
  <2>1. w = u
    BY <1>1, <1>3, <1>t DEF Handler, UploadReturns, Touch, Expire, StartUpload, Succeed, Fail,
                            Goes, TypeOK
  <2> QED BY <2>1, <1>3, <1>t DEF Handler, UploadReturns, Touch, Expire, Fail, Goes, TypeOK, Shown
<1>4. ~Restart
  BY <1>t DEF Restart, Shown
<1> QED BY <1>1, <1>2, <1>3, <1>4 DEF Backend, SignIn, LogOut, Poll, Tick, requestVars

\* A handler that finds a record answers from it.
LEMMA RecordAnswers ==
    ASSUME PInv, TypeOK', NEW u \in Uploads, StartUpload(u), at'[u] # "uploading"
    PROVE  \E v \in Uploads : /\ at[v] = "done" /\ at'[v] = "done" /\ v # u
                             /\ payload[v] = record /\ payload'[v] = payload[v]
<1>1. at[u] = "accepted" /\ at'[u] = Check(u) /\ TypeOK
  BY DEF StartUpload, Goes, PInv, SInv, TypeOK
<1>2. record # NoRecord
  BY <1>1 DEF Check
<1>3. PICK v \in Uploads : at[v] = "done" /\ payload[v] = record
  BY <1>2 DEF PInv, SInv, RecordIsBacked
<1> QED BY <1>1, <1>3 DEF StartUpload, Goes, Forget, TypeOK

(* A success the page shows is the 200 of an upload that ran to its end with the
   names it shows: for any number of clicks, payloads, sessions and restarts. *)
THEOREM PageSuccessWasAnswered == PageSpec => SuccessWasAnswered
<1> DEFINE A == \A u \in Uploads :
                   Shown(u, Success)
                       => \E v \in Uploads : at'[v] = "done" /\ payload'[v] = payload[u]
<1>1. PInv /\ PInv' /\ [PageNext]_allVars => A
  <2> SUFFICES ASSUME PInv, PInv', [PageNext]_allVars, NEW u \in Uploads, Shown(u, Success)
               PROVE  \E v \in Uploads : at'[v] = "done" /\ payload'[v] = payload[u]
    OBVIOUS
  <2>t. TypeOK /\ TypeOK'
    BY DEF PInv, SInv
  <2>1. Succeed(u) \/ StartUpload(u)
    BY <2>t, AnswerComesFromHandler DEF Shown, Success
  <2>2. CASE Succeed(u)
    BY <2>2, <2>t DEF Succeed, Goes, Forget, TypeOK, Finals
  <2>3. CASE StartUpload(u)
    <3>1. at'[u] = "replayed" /\ at'[u] = Check(u)
      BY <2>3, <2>t DEF Shown, Success, StartUpload, Goes, Check, TypeOK
    <3>2. record = payload[u]
      BY <3>1 DEF Check
    <3> QED BY <2>3, <2>t, <3>1, <3>2, RecordAnswers
  <2> QED BY <2>1, <2>2, <2>3
<1> QED BY <1>1, PageInductive, PTL DEF PageSpec, SuccessWasAnswered

(* A click is refused for its files only after an earlier one, with other
   files, was answered 200 without the page having seen it. *)
THEOREM PageConflictIsUnseenSuccess == PageSpec => ConflictIsUnseenSuccess
<1> DEFINE A == \A u \in Uploads :
                   Shown(u, {"conflict"})
                       => \E v \in 1 .. u - 1 : at[v] = "done" /\ payload[v] # payload[u]
<1>1. PInv /\ PInv' /\ [PageNext]_allVars => A
  <2> SUFFICES ASSUME PInv, PInv', [PageNext]_allVars, NEW u \in Uploads,
                      Shown(u, {"conflict"})
               PROVE  \E v \in 1 .. u - 1 : at[v] = "done" /\ payload[v] # payload[u]
    OBVIOUS
  <2>t. TypeOK /\ TypeOK'
    BY DEF PInv, SInv
  <2>1. StartUpload(u)
    <3>1. Succeed(u) \/ StartUpload(u)
      BY <2>t, AnswerComesFromHandler DEF Shown
    <3> QED BY <3>1, <2>t DEF Succeed, Goes, Shown, TypeOK
  <2>2. at'[u] = "conflict" /\ at'[u] = Check(u)
    BY <2>1, <2>t DEF Shown, StartUpload, Goes, TypeOK
  <2>3. record # payload[u]
    BY <2>2 DEF Check
  <2>4. PICK v \in Uploads : at[v] = "done" /\ v # u /\ payload[v] = record
    BY <2>1, <2>2, <2>t, RecordAnswers
  <2>5. ~(u < v)
    BY <2>4, BoundsAreNatural DEF PInv, WaitsForLast, Shown, Uploads
  <2>6. v \in 1 .. u - 1
    BY <2>4, <2>5, BoundsAreNatural DEF Uploads
  <2> QED BY <2>3, <2>4, <2>6
<1> QED BY <1>1, PageInductive, PTL DEF PageSpec, ConflictIsUnseenSuccess

===============================================================================
