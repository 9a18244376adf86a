------------------------------- MODULE Sessions -------------------------------
(***************************************************************************)
(* The sessions of one user and the upload requests made with them: the    *)
(* in-memory session store with its sliding expiry, logout, and the        *)
(* idempotency records, under requests that overlap, are retried while the *)
(* first is still at work, and outlive their session.                      *)
(*                                                                         *)
(* All uploads carry the same idempotency key; those with other keys, or   *)
(* none, share nothing with them but the session.  require_session is a    *)
(* plain function, which FastAPI runs in a thread: what it reads and what  *)
(* it writes are two steps.  The rest of a handler runs on the event loop, *)
(* and a step of it ends at an await.                                      *)
(***************************************************************************)
EXTENDS Naturals

CONSTANTS
    Tokens,         \* session tokens the user may be issued
    MaxUploads,     \* bound on POST /api/upload/start requests with the one key
    Payloads,       \* request fingerprints
    Timeout,        \* INACTIVITY_TIMEOUT_SECONDS
    MaxTime,        \* bound on the clock
    MaxRestarts     \* bound on backend restarts

ASSUME BoundsAreNatural ==
    {MaxUploads, Timeout, MaxTime, MaxRestarts} \subseteq Nat

NoRecord == "none"

ASSUME SomethingToSend == Tokens # {} /\ Payloads # {} /\ NoRecord \notin Payloads

\* Uploads are numbered in the order in which they arrive.
Uploads == 1 .. MaxUploads

VARIABLES
    now,
    session,    \* status of the session; "missing": not issued, or forgotten
    expires,    \* its expires_at
    used,       \* history: when it was last issued or accepted
    at,         \* what the handler of an upload is at
    token,      \* the session an upload was sent with
    payload,    \* the fingerprint of an upload
    seenAt,     \* the time its require_session has read; 0 outside of it
    record,     \* the fingerprint of the idempotency record, if there is one
    repeats,    \* history: uploads sent after one of the key was answered 200
    restarts

sessionVars == <<session, expires, used>>
requestVars == <<at, token, payload, seenAt>>
keyVars == <<record, repeats>>
vars == <<now, sessionVars, requestVars, keyVars, restarts>>

\* The handler has answered; or the backend has stopped since the request.
Finals == {"done", "replayed", "conflict", "failed", "refused", "lost"}

Stages == {"unsent", "live", "stale", "accepted", "uploading", "uploaded",
           "rejected"} \cup Finals

TypeOK ==
    /\ now      \in 0 .. MaxTime
    /\ session  \in [Tokens -> {"missing", "active", "expired", "revoked"}]
    /\ expires  \in [Tokens -> 0 .. MaxTime + Timeout]
    /\ used     \in [Tokens -> 0 .. MaxTime]
    /\ at       \in [Uploads -> Stages]
    /\ token    \in [Uploads -> Tokens]
    /\ payload  \in [Uploads -> Payloads]
    /\ seenAt   \in [Uploads -> 0 .. MaxTime]
    /\ record   \in Payloads \cup {NoRecord}
    /\ repeats  \in SUBSET Uploads
    /\ restarts \in 0 .. MaxRestarts

\* What a request that is not under way was or will be sent with.
AnyToken == CHOOSE t \in Tokens : TRUE
AnyPayload == CHOOSE p \in Payloads : TRUE

Init ==
    /\ now      = 0
    /\ session  = [t \in Tokens |-> "missing"]
    /\ expires  = [t \in Tokens |-> 0]
    /\ used     = [t \in Tokens |-> 0]
    /\ at       = [u \in Uploads |-> "unsent"]
    /\ token    = [u \in Uploads |-> AnyToken]
    /\ payload  = [u \in Uploads |-> AnyPayload]
    /\ seenAt   = [u \in Uploads |-> 0]
    /\ record   = NoRecord
    /\ repeats  = {}
    /\ restarts = 0

Goes(u, from, to) == at[u] = from /\ at' = [at EXCEPT ![u] = to]

\* What an answered request was sent with is forgotten, but for those answered 200.
Forget(u, answer) ==
    /\ token' = [token EXCEPT ![u] = IF answer \in Finals THEN AnyToken ELSE @]
    /\ payload' = [payload EXCEPT ![u] = IF answer \in Finals \ {"done"} THEN AnyPayload ELSE @]

-----------------------------------------------------------------------------
(* Sessions. *)

\* Mutant: the session is extended by more than the inactivity timeout.
ExpiryLate(time) == time + Timeout + 1

Expiry(time) == time + Timeout

(* The part of validate_and_touch that reads.  "expired" does not count: only
   the date does. *)
Refused(t) == session[t] \in {"missing", "revoked"}

\* Mutant: the date is not compared.
PastExpiryNever(t) == FALSE

PastExpiry(t) == now > expires[t]

(* POST /api/auth/verify: create_session, once Hugging Face knows the user.  The
   new session may take the place in Tokens of one that is over, unless a
   require_session is at work on that: accepted requests have no use for it. *)
SignIn(t) ==
    /\ Refused(t) \/ PastExpiry(t)
    /\ \A u \in Uploads : at[u] \in {"live", "stale"} => token[u] # t
    /\ session' = [session EXCEPT ![t] = "active"]
    /\ expires' = [expires EXCEPT ![t] = Expiry(now)]
    /\ used' = [used EXCEPT ![t] = now]
    /\ UNCHANGED <<now, requestVars, keyVars, restarts>>

\* An upload arrives, and its require_session has read the session.
Send(u, t, p) ==
    /\ at[u] = "unsent"
    /\ \A v \in 1 .. u - 1 : at[v] # "unsent"
    /\ IF Refused(t)
       THEN /\ at' = [at EXCEPT ![u] = "refused"]
            /\ UNCHANGED <<token, payload, seenAt>>
       ELSE /\ at' = [at EXCEPT ![u] = IF PastExpiry(t) THEN "stale" ELSE "live"]
            /\ token' = [token EXCEPT ![u] = t]
            /\ payload' = [payload EXCEPT ![u] = p]
            /\ seenAt' = [seenAt EXCEPT ![u] = IF PastExpiry(t) THEN 0 ELSE now]
    /\ repeats' = IF \E v \in Uploads : at[v] = "done" THEN repeats \cup {u} ELSE repeats
    /\ UNCHANGED <<now, sessionVars, record, restarts>>

\* The part of validate_and_touch that writes: the session slides ...
Touch(u) ==
    /\ Goes(u, "live", "accepted")
    /\ expires' = [expires EXCEPT ![token[u]] = Expiry(seenAt[u])]
    /\ used' = [used EXCEPT ![token[u]] = IF @ < seenAt[u] THEN seenAt[u] ELSE @]
    /\ seenAt' = [seenAt EXCEPT ![u] = 0]
    /\ UNCHANGED <<now, session, token, payload, keyVars, restarts>>

\* ... or expires, whatever it has become since it was read.
Expire(u) ==
    /\ Goes(u, "stale", "refused")
    /\ Forget(u, "refused")
    /\ session' = [session EXCEPT ![token[u]] = "expired"]
    /\ UNCHANGED <<now, expires, used, seenAt, keyVars, restarts>>

(* Another request of the session, whose require_session is not interrupted: a
   page that polls keeps it alive ... *)
Poll(t) ==
    /\ ~Refused(t)
    /\ ~PastExpiry(t)
    /\ expires' = [expires EXCEPT ![t] = Expiry(now)]
    /\ used' = [used EXCEPT ![t] = now]
    /\ UNCHANGED <<now, session, requestVars, keyVars, restarts>>

\* ... and POST /api/auth/logout revokes it.
LogOut(t) ==
    /\ ~Refused(t)
    /\ ~PastExpiry(t)
    /\ session' = [session EXCEPT ![t] = "revoked"]
    /\ expires' = [expires EXCEPT ![t] = Expiry(now)]
    /\ used' = [used EXCEPT ![t] = now]
    /\ UNCHANGED <<now, requestVars, keyVars, restarts>>

-----------------------------------------------------------------------------
(* The upload handler. *)

\* Mutant: the record is not looked up.
CheckForgets(u) == "uploading"

\* Mutant: a failed upload uses up the key.
CheckSpentByFailure(u) ==
    IF record = payload[u] THEN "replayed"
    ELSE IF \E v \in Uploads : at[v] \in {"done", "failed"} THEN "conflict" ELSE "uploading"

\* Mutant: the fingerprints are not compared.
CheckAnyPayload(u) == IF record = NoRecord THEN "uploading" ELSE "replayed"

(* check_idempotency: 409 if the key was used for another payload, the recorded
   answer if it was used for this one. *)
Check(u) ==
    IF record = NoRecord THEN "uploading"
    ELSE IF record = payload[u] THEN "replayed" ELSE "conflict"

StartUpload(u) ==
    /\ Goes(u, "accepted", Check(u))
    /\ Forget(u, Check(u))
    /\ UNCHANGED <<now, sessionVars, seenAt, keyVars, restarts>>

(* The files have been read and the calls to the Hub, made in threads, have
   returned.  Too much data, a name that leaves the directory and a call that
   raises reject the upload.  Root files that are lost next to folders, which
   nobody is told, and folders that are lost for reasons other than 403 and 409,
   which the answer lists, do not: "uploaded" is a call of upload_model_folder
   that has returned, with the files it lost. *)
UploadReturns(u) ==
    /\ Goes(u, "uploading", "uploaded") \/ Goes(u, "uploading", "rejected")
    /\ UNCHANGED <<now, sessionVars, token, payload, seenAt, keyVars, restarts>>

\* Mutant: the session is validated again before the answer is stored.
MayAnswerInSession(u) == session[token[u]] = "active"

\* The handler does not look at the session again.
MayAnswer(u) == TRUE

\* store_idempotency_result, over what was recorded, and 200.
Succeed(u) ==
    /\ MayAnswer(u)
    /\ Goes(u, "uploaded", "done")
    /\ Forget(u, "done")
    /\ record' = payload[u]
    /\ UNCHANGED <<now, sessionVars, seenAt, repeats, restarts>>

\* A failure is answered and not recorded, so that a retry uploads again.
Fail(u) ==
    /\ Goes(u, "rejected", "failed")
    /\ Forget(u, "failed")
    /\ UNCHANGED <<now, sessionVars, seenAt, keyVars, restarts>>

-----------------------------------------------------------------------------
(* Time and the process. *)

Tick ==
    /\ now < MaxTime
    /\ now' = now + 1
    /\ UNCHANGED <<sessionVars, requestVars, keyVars, restarts>>

\* Sessions and records are in memory, and requests under way are lost.
Restart ==
    /\ restarts < MaxRestarts
    /\ restarts' = restarts + 1
    /\ session' = [t \in Tokens |-> "missing"]
    /\ at' = [u \in Uploads |-> IF at[u] = "unsent" THEN "unsent" ELSE "lost"]
    /\ token' = [u \in Uploads |-> AnyToken]
    /\ payload' = [u \in Uploads |-> AnyPayload]
    /\ seenAt' = [u \in Uploads |-> 0]
    /\ record' = NoRecord
    /\ repeats' = {}
    /\ expires' = [t \in Tokens |-> 0]
    /\ used' = [t \in Tokens |-> 0]
    /\ UNCHANGED now

-----------------------------------------------------------------------------

Handler(u) ==
    Touch(u) \/ Expire(u) \/ StartUpload(u) \/ Succeed(u) \/ Fail(u)

Next ==
    \/ \E t \in Tokens : SignIn(t) \/ LogOut(t) \/ Poll(t)
    \/ \E u \in Uploads, t \in Tokens, p \in Payloads : Send(u, t, p)
    \/ \E u \in Uploads : UploadReturns(u) \/ Handler(u)
    \/ Tick
    \/ Restart

Spec == Init /\ [][Next]_vars

\* Threads and coroutines run.  Clients owe nothing, nor does the Hub.
FairSpec == Spec /\ \A u \in Uploads : WF_vars(Handler(u))

-----------------------------------------------------------------------------
(* Properties. *)

(* FR-001, FR-003: a request is accepted only within the inactivity timeout of
   the session's last use, although the expiry is computed and written by
   threads that overtake each other. *)
AcceptedWithinWindow ==
    [][\A u \in Uploads :
          at[u] = "unsent" /\ at'[u] = "live" => now <= used[token'[u]] + Timeout]_vars

(* FR-009: an upload sent after another of the same key was answered does not
   run, whatever overlapping uploads have recorded over that answer. *)
AnsweredIsNotRepeated ==
    \A u \in repeats : at[u] \notin {"uploading", "uploaded", "rejected", "done"}

\* The calls to the Hub, which the code gives no timeout, return.
HubAnswers == []<>(\A u \in Uploads : at[u] # "uploading")

(* FR-005, SC-002: every upload that arrives ends in success or in an explicit
   failure, also when its session expires, is logged out or is replaced while
   it is under way.  (There are finitely many: none may be left for ever.) *)
AcceptedReachesFinalState ==
    HubAnswers => <>[](\A u \in Uploads : at[u] \in {"unsent"} \cup Finals)

===============================================================================
