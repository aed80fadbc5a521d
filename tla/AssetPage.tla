----------------------------- MODULE AssetPage -----------------------------
(***************************************************************************)
(* The page of one asset: its detail and a page of its custody history are *)
(* loaded by an effect each, and reset by a third when the address names   *)
(* another asset; dialogs check the asset out and in, edit and delete it.  *)
(* An asset counts its changes, and the check-outs and check-ins among     *)
(* them; other people make changes, too.  A page of the history has one    *)
(* event (HISTORY_PAGE).                                                   *)
(***************************************************************************)
EXTENDS Browser

CONSTANTS
  AssetIds, NoAsset,
  MaxChanges      \* bound: changes of an asset

ASSUME AssetPageAssumption == NoAsset \notin AssetIds /\ MaxChanges \in Nat

VARIABLES
  stored,      \* the assets on the server
  want,        \* what the effects depend on: id, nonce and page of history
  done,        \* the same, of the last effects that ran
  detail,      \* the answer that the page holds, or Null
  problem,     \* notFound and loadError, each with the asset that was asked for
  history,     \* a page of the history, Null or Unavailable
  fetches,     \* requests on their way, with "cancelled" of their effect
  dialog, saving,  \* the state of AssetActions: open dialog, "busy"
  saves,       \* mutations on their way; are page and dialog still mounted?
  told         \* history: the last change of each asset the page was told of

assetVars == <<stored, want, done, detail, problem, history, fetches, dialog,
               saving, saves, told>>

Gone == [changes |-> MaxChanges + 1, events |-> 0]
Deployed(events) == events % 2 = 1

Null == [kind |-> "null"]
Unavailable == [kind |-> "error"]
NotDone == [id |-> NoAsset, nonce |-> 0, page |-> 0]
NothingTold == [a \in AssetIds |-> 0]

-----------------------------------------------------------------------------
(* The server *)

\* Whether the change is accepted, and what it makes of the asset.
Accepted(a, action) ==
  /\ stored[a] # Gone
  /\ stored[a].changes < MaxChanges
  /\ action = "check_out" => ~Deployed(stored[a].events)
  /\ action = "check_in" => Deployed(stored[a].events)

Changed(a, action) ==
  IF action = "delete" THEN Gone
  ELSE [changes |-> stored[a].changes + 1,
        events |-> stored[a].events + IF action = "edit" THEN 0 ELSE 1]

Actions == {"check_out", "check_in", "edit", "delete"}

OthersChange(a, action) ==
  /\ Click
  /\ Accepted(a, action)
  /\ stored' = [stored EXCEPT ![a] = Changed(a, action)]
  /\ UNCHANGED <<session, want, done, detail, problem, history, fetches,
                 dialog, saving, saves, told>>

\* getAssetDetail and getCustodyHistory
ServeFetch(f) ==
  /\ f.stage = "sent"
  /\ fetches' = (fetches \ {f}) \cup
       {IF ~session THEN Unauthorized(f)
        ELSE IF stored[f.id] = Gone THEN [f EXCEPT !.stage = "404"]
        ELSE [f EXCEPT !.stage = "answer", !.row = stored[f.id]]}
  /\ UNCHANGED <<session, clicks, stored, want, done, detail, problem, history,
                 dialog, saving, saves, told>>

ServeSave(s) ==
  /\ s.stage = "sent"
  /\ IF ~session
     THEN saves' = (saves \ {s}) \cup {Unauthorized(s)} /\ UNCHANGED stored
     ELSE IF ~Accepted(s.id, s.action)
     THEN saves' = (saves \ {s}) \cup {[s EXCEPT !.stage = "refused"]} /\ UNCHANGED stored
     ELSE /\ stored' = [stored EXCEPT ![s.id] = Changed(s.id, s.action)]
          /\ saves' = (saves \ {s}) \cup
               {[s EXCEPT !.stage = "ok", !.change = stored[s.id].changes + 1]}
  /\ UNCHANGED <<session, clicks, want, done, detail, problem, history, fetches,
                 dialog, saving, told>>

-----------------------------------------------------------------------------
(* The page *)

Fetch(what, to) ==
  [what |-> what, id |-> to.id, page |-> to.page, live |-> TRUE, stage |-> "sent",
   row |-> Gone]

\* AssetActions is there while the detail is shown.
Shown == detail # Null /\ problem = {}

Unmounted(s) == [s EXCEPT !.form = FALSE]

ActionsLeave ==
  dialog' = "none" /\ saving' = FALSE /\ saves' = {Unmounted(s) : s \in saves}

\* Mutant: the effects have no cleanup.
MutDropped(f, what) == f

\* The cleanup of an effect
Dropped(f, what) == IF f.what \in what THEN [f EXCEPT !.live = FALSE] ELSE f

\* React runs those of the three effects whose dependencies have changed, the
\* reset first.  It resets the page of the history as well, which runs the
\* effect of the history again.
AssetEffects ==
  /\ want # done
  /\ done' = want
  /\ LET moved == want.id # done.id
         what  == IF moved \/ want.nonce # done.nonce
                  THEN {"detail", "history"} ELSE {"history"}
     IN  /\ fetches' = {Dropped(f, what) : f \in fetches} \cup {Fetch(w, want) : w \in what}
         /\ history' = Null
         /\ IF moved
            THEN /\ want' = [want EXCEPT !.page = 0]
                 /\ detail' = Null /\ problem' = {}
                 /\ ActionsLeave
            ELSE UNCHANGED <<want, detail, problem, dialog, saving, saves>>
  /\ UNCHANGED <<session, clicks, stored, told>>

\* An answer for the detail; a page that shows a problem has no AssetActions.
DetailArrives(f) ==
  /\ f.what = "detail" /\ f.stage \in {"answer", "404"}
  /\ fetches' = fetches \ {f}
  /\ IF ~f.live
     THEN UNCHANGED <<detail, problem, dialog, saving, saves>>
     ELSE IF f.stage = "answer"
     THEN /\ detail' = [kind |-> "answer", id |-> f.id, row |-> f.row]
          /\ problem' = {}
          /\ UNCHANGED <<dialog, saving, saves>>
     ELSE /\ problem' = problem \cup {[what |-> "absent", id |-> f.id]}
          /\ ActionsLeave
          /\ UNCHANGED detail
  /\ UNCHANGED <<session, clicks, stored, want, done, history, told>>

HistoryArrives(f) ==
  /\ f.what = "history" /\ f.stage \in {"answer", "404"}
  /\ fetches' = fetches \ {f}
  /\ history' = IF ~f.live THEN history
                ELSE IF f.stage = "404" THEN Unavailable
                ELSE [kind |-> "answer", id |-> f.id, page |-> f.page, row |-> f.row]
  /\ UNCHANGED <<session, clicks, stored, want, done, detail, problem, dialog,
                 saving, saves, told>>

FetchFails(f) ==
  /\ Click
  /\ f.live /\ f.stage \in {"sent", "answer", "404"}
  /\ fetches' = fetches \ {f}
  /\ IF f.what = "history"
     THEN history' = Unavailable /\ UNCHANGED <<problem, dialog, saving, saves>>
     ELSE /\ problem' = problem \cup {[what |-> "failed", id |-> f.id]}
          /\ ActionsLeave
          /\ UNCHANGED history
  /\ UNCHANGED <<session, stored, want, done, detail, told>>

\* The address changes to another asset: back, forward.
GoTo(a) ==
  /\ Click
  /\ want.id # a
  /\ want' = [want EXCEPT !.id = a]
  /\ UNCHANGED <<session, stored, done, detail, problem, history, fetches, dialog,
                 saving, saves, told>>

\* "Retry" in place of a detail that failed, "Retry history" beside one.
RetryAsset ==
  /\ Click
  /\ \/ problem # {} /\ \A x \in problem : x.what = "failed"
     \/ Shown /\ dialog = "none" /\ history = Unavailable
  /\ want' = [want EXCEPT !.nonce = @ + 1]
  /\ UNCHANGED <<session, stored, done, detail, problem, history, fetches, dialog,
                 saving, saves, told>>

TurnHistory(page) ==
  /\ Click
  /\ Shown /\ dialog = "none" /\ history.kind = "answer"
  /\ \/ page = want.page + 1 /\ page < history.row.events
     \/ page + 1 = want.page
  /\ want' = [want EXCEPT !.page = page]
  /\ UNCHANGED <<session, stored, done, detail, problem, history, fetches, dialog,
                 saving, saves, told>>

\* The buttons go by the status that is shown.
OpenDialog(action) ==
  /\ Shown /\ dialog = "none"
  /\ action = "check_out" => ~Deployed(detail.row.events)
  /\ action = "check_in" => Deployed(detail.row.events)
  /\ dialog' = action
  /\ UNCHANGED <<session, clicks, stored, want, done, detail, problem, history,
                 fetches, saving, saves, told>>

CloseAction ==
  /\ dialog # "none" /\ ~saving
  /\ dialog' = "none"
  /\ UNCHANGED <<session, clicks, stored, want, done, detail, problem, history,
                 fetches, saving, saves, told>>

\* submitCheckout, submitCheckin, submitEdit, submitDelete
Save ==
  /\ Click
  /\ dialog # "none" /\ ~saving
  /\ saving' = TRUE
  /\ saves' = saves \cup {[action |-> dialog, id |-> want.id, stage |-> "sent",
                           change |-> 0, mounted |-> TRUE, form |-> TRUE]}
  /\ UNCHANGED <<session, stored, want, done, detail, problem, history, fetches,
                 dialog, told>>

\* Mutant: the page is not loaded again.
MutOnChanged(w) == w

\* reload
OnChanged(w) == [w EXCEPT !.nonce = @ + 1]

\* The answer to a mutation.  A dialog that is gone takes no notice of it, but
\* the page does.  (That of a deletion leaves the page: see WebClient.)
Saved(s) ==
  /\ s.stage \in {"ok", "refused"}
  /\ ~(s.action = "delete" /\ s.stage = "ok")
  /\ saves' = saves \ {s}
  /\ saving' = IF s.form THEN FALSE ELSE saving
  /\ dialog' = IF s.form /\ s.stage = "ok" THEN "none" ELSE dialog
  /\ IF s.mounted /\ s.stage = "ok"
     THEN want' = OnChanged(want) /\ told' = [told EXCEPT ![s.id] = IF s.change > @ THEN s.change ELSE @]
     ELSE UNCHANGED <<want, told>>
  /\ UNCHANGED <<session, clicks, stored, done, detail, problem, history, fetches>>

\* The page is rendered anew, for an asset.
AssetMounted(a) ==
  /\ want' = [id |-> a, nonce |-> 0, page |-> 0] /\ done' = NotDone
  /\ detail' = Null /\ problem' = {} /\ history' = Null
  /\ dialog' = "none" /\ saving' = FALSE /\ told' = NothingTold

AssetInit(a) ==
  /\ stored = [x \in AssetIds |-> [changes |-> 0, events |-> 0]]
  /\ want = [id |-> a, nonce |-> 0, page |-> 0] /\ done = NotDone
  /\ detail = Null /\ problem = {} /\ history = Null
  /\ dialog = "none" /\ saving = FALSE /\ told = NothingTold
  /\ fetches = {} /\ saves = {}

\* What the user does
AssetUser ==
  \/ \E a \in AssetIds : GoTo(a)
  \/ RetryAsset \/ CloseAction \/ Save
  \/ \E page \in 0 .. MaxChanges : TurnHistory(page)
  \/ \E action \in Actions : OpenDialog(action)

FetchGoesOn == \E f \in fetches : ServeFetch(f) \/ DetailArrives(f) \/ HistoryArrives(f)
SaveGoesOn == \E s \in saves : ServeSave(s) \/ Saved(s)

-----------------------------------------------------------------------------
(* Properties *)

\* Nothing of another asset shows once the effects ran ("so a stale not-found
\* or an old asset's history never leaks across ids"), and no change that the
\* page was told of is missing from what it shows and no longer loads.
AssetIsCurrent ==
  want = done =>
    /\ \A x \in problem : x.id = want.id
    /\ history.kind = "answer" =>
         /\ history.id = want.id /\ history.page = want.page
         /\ history.row.changes >= told[want.id]
    /\ detail # Null => detail.id = want.id
    /\ Shown /\ ~(\E f \in fetches : f.live /\ f.what = "detail")
         => detail.row.changes >= told[want.id]
=============================================================================
