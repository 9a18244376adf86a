------------------------------ MODULE UploadPage ------------------------------
(***************************************************************************)
(* The page that uploads a model, composed with the session store and the  *)
(* upload handler: render_upload_section as Streamlit runs it, one run of  *)
(* the script at a time, with the request inside of it.                    *)
(*                                                                         *)
(* The page makes an idempotency key at the first click and keeps it until *)
(* an upload is answered 200 or the session is cleared: the uploads of Sessions   *)
(* are those this page sends with one key, which nobody else knows.  An    *)
(* answer and what the page makes of it are one step: until it arrives the *)
(* page can do nothing but give up.                                        *)
(***************************************************************************)
EXTENDS Sessions

VARIABLES
    nonce,      \* _request_nonce: "none" before the first click, "kept", "over"
    mine,       \* the session token of the page
    waiting     \* the upload whose answer the page waits for, 0 without one

pageVars == <<nonce, mine, waiting>>
allVars == <<vars, pageVars>>

PageTypeOK ==
    /\ nonce   \in {"none", "kept", "over"}
    /\ mine    \in Tokens
    /\ waiting \in {0} \cup Uploads
    /\ waiting # 0 => nonce = "kept" /\ at[waiting] \notin Finals

PageInit ==
    /\ Init
    /\ nonce = "none"
    /\ mine = AnyToken
    /\ waiting = 0

-----------------------------------------------------------------------------

Success == {"done", "replayed"}

\* The key is forgotten with a 200, whatever it says of the folders; any error
\* keeps it.
NonceAfter(answer) == IF answer \in Success THEN "over" ELSE "kept"

\* The page waits for an upload that is not answered yet.
WaitsFor(u) ==
    IF at'[u] \in Finals
    THEN waiting' = 0 /\ nonce' = NonceAfter(at'[u])
    ELSE waiting' = u /\ UNCHANGED nonce

\* The backend steps, and if that answers the page, the page goes on.
Reacts ==
    /\ UNCHANGED mine
    /\ IF waiting # 0 THEN WaitsFor(waiting) ELSE UNCHANGED <<nonce, waiting>>

(* The button, when no script of the page is running: with the key that is
   kept, or a new one, and with the token the page has had since it signed in.
   A request that is refused at once is answered. *)
Click(u) ==
    /\ nonce # "over"
    /\ waiting = 0
    /\ \E t \in IF nonce = "none" THEN Tokens ELSE {mine}, p \in Payloads :
         /\ Send(u, t, p)
         /\ mine' = t
         /\ waiting' = IF at'[u] \in Finals THEN 0 ELSE u
    /\ nonce' = "kept"

\* requests.post times out after 300 s: an error, which keeps the key.
GivesUp ==
    /\ waiting # 0
    /\ waiting' = 0
    /\ UNCHANGED <<vars, nonce, mine>>

\* Sign Out clears the session state, and so does reloading the page.
Leaves ==
    /\ nonce = "kept"
    /\ nonce' = "over"
    /\ waiting' = 0
    /\ UNCHANGED <<vars, mine>>

-----------------------------------------------------------------------------

(* What the backend does but for arriving uploads.  A new session does not take
   the place of the one the page still names. *)
Backend ==
    \/ \E t \in Tokens :
         \/ SignIn(t) /\ (t = mine => nonce # "kept")
         \/ LogOut(t) \/ Poll(t)
    \/ \E u \in Uploads : UploadReturns(u) \/ Handler(u)
    \/ Tick
    \/ Restart

PageNext ==
    \/ Backend /\ Reacts
    \/ \E u \in Uploads : Click(u)
    \/ GivesUp
    \/ Leaves

PageSpec == PageInit /\ [][PageNext]_allVars

\* As in Sessions: users owe nothing.
PageFairSpec == PageSpec /\ \A u \in Uploads : WF_allVars(Handler(u) /\ Reacts)

-----------------------------------------------------------------------------
(* Properties. *)

\* The answer to upload u has reached the page.
Shown(u, answers) == waiting = u /\ at'[u] \in answers

(* A success the page shows is the 200 of an upload that ran to its end, for
   this click or for one the page gave up on, with the names and the repository
   the page shows it for, whatever was clicked in between, and whether or not
   the backend has restarted.  (The names: the fingerprint leaves out what is in
   the files.  That the Hub holds every file is not what a 200 says: see
   UploadReturns.) *)
SuccessWasAnswered ==
    [][\A u \in Uploads :
          Shown(u, Success)
              => \E v \in Uploads : at'[v] = "done" /\ payload'[v] = payload[u]]_allVars

(* A page whose key is refused for other files has had an upload of those
   answered 200 without seeing it: failed uploads do not use up the key. *)
ConflictIsUnseenSuccess ==
    [][\A u \in Uploads :
          Shown(u, {"conflict"})
              => \E v \in 1 .. u - 1 : at[v] = "done" /\ payload[v] # payload[u]]_allVars

===============================================================================
