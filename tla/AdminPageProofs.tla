---------------------------- MODULE AdminPageProofs ----------------------------
(***************************************************************************)
(* Theorems of AdminPage, for every one of the 37 kinds of row and every   *)
(* set of rows and of slots.                                               *)
(***************************************************************************)
EXTENDS AdminPage, FiniteSetTheorems, TLAPS

(***************************************************************************)
(* The inductive invariant.                                                *)
(***************************************************************************)
(* A page that is left has ended its subscription: one page listens.       *)
OneHears == heard = {view}

(* The box names the target of the page that asked, or one that several    *)
(* kinds share.                                                            *)
BoxIsOfAsker ==
  box # NoBox =>
    /\ box \in Box
    /\ box.from \in Views => /\ box.from = "trash" => HasTrash(kind)
                             /\ box.target = Ask(box.from).asks
    /\ box.from = "elsewhere" => box.target \in SharedTargets

(* An onSubmit that threw has sent nothing, and nothing can be sent after. *)
StuckIsBusy == form.stuck => form.busy /\ SavesUnderWay = {}

(* What the dialog was filled with, and what the read of its last opening  *)
(* will fill it with, is the row that it was opened for.                   *)
FilledAsOpened ==
  /\ form.edit <=> form.wanted # 0
  /\ form.by = "this" => form.id = form.wanted
  /\ \A s \in Slots : net[s].call = "read" /\ net[s].mine /\ net[s].latest =>
                        net[s].id = form.wanted

(* A read is of a row, and says whether that is deleted.                   *)
ReadsAreOfRows ==
  \A s \in Slots : net[s].call = "read" => net[s].id \in Ids /\ net[s].as \in Exist

(* Where a list holds every row that there is, no row is deleted but for   *)
(* good, and nobody writes that one is.                                    *)
HoldsAll == Clients[kind].lists = "all" /\ kind # "apikey"
NoneTrashed ==
  HoldsAll => /\ \A i \in Ids : rows[i] # "trashed"
              /\ form.as # "trashed"
              /\ \A s \in Slots : /\ net[s].as # "trashed"
                                  /\ net[s].call = "delete" => net[s].permanent

(* A switch in the list writes back what it has read of deleted.           *)
SwitchesKeep ==
  view = "list" =>
    \A s \in Slots : net[s].call = "rewrite" /\ net[s].mine => net[s].as = "kept"

(* The last list asked for holds what the table held since the last change.*)
LatestIsTrue ==
  \A s \in Slots : Answers(s, "list") /\ net[s].latest => net[s].ids = Expected

(* What the page waits for, and will bring its list up to date, or show    *)
(* an error, or leave it muddled.                                          *)
Awaited(q) ==
  /\ q.mine
  /\ q.call \in {"list", "delete"} \cup Saves \/ (q.call = "rewrite" /\ view = "trash")
TrueOrAwaited == ~failed /\ ~muddled => shown = Expected \/ \E s \in Slots : Awaited(net[s])

PageInv ==
  /\ TypeOK
  /\ OneHears
  /\ BoxIsOfAsker
  /\ StuckIsBusy
  /\ DialogRecovers
  /\ FilledAsOpened
  /\ ReadsAreOfRows
  /\ NoneTrashed
  /\ SwitchesKeep
  /\ LatestIsTrue
  /\ TrueOrAwaited

(***************************************************************************)
(* The requests.                                                           *)
(***************************************************************************)
Requests == Request \cup {NoRequest}

(* What is left in the slots of n when q is sent in the slot s.            *)
Overtakes(q, p) == q.call \in {"list", "read"} /\ p.call = q.call
Added(n, s, q) ==
  [t \in Slots |-> IF t = s THEN q
                   ELSE IF Overtakes(q, n[t]) THEN [n[t] EXCEPT !.latest = FALSE] ELSE n[t]]

(* One request takes one free slot.                                        *)
LEMMA SentOne ==
  ASSUME NEW n, NEW q, NEW m \in Sent(n, {q})
  PROVE  \E s \in Slots : n[s].call = "none" /\ m = Added(n, s, q)
  <1> DEFINE free == {s \in Slots : n[s].call = "none"}
             over == {r.call : r \in {q}} \cap {"list", "read"}
             At(f) == [s \in Slots |->
                        IF \E r \in {q} : f[r] = s THEN CHOOSE r \in {q} : f[r] = s
                        ELSE IF n[s].call \in over THEN [n[s] EXCEPT !.latest = FALSE] ELSE n[s]]
  <1>1. PICK f \in [{q} -> free] : m = At(f)
    BY DEF Sent
  <1>2. f[q] \in free
    BY <1>1
  <1>3. \A s \in Slots : n[s].call \in over <=> Overtakes(q, n[s])
    BY DEF Overtakes
  <1>4. \A s \in Slots : (\E r \in {q} : f[r] = s) <=> s = f[q]
    OBVIOUS
  <1>5. (CHOOSE r \in {q} : f[r] = f[q]) = q
    OBVIOUS
  <1>6. m = Added(n, f[q], q)
    BY <1>1, <1>3, <1>4, <1>5 DEF Added
  <1>7. QED
    BY <1>2, <1>6

(* Nothing sent, nothing changed.                                          *)
LEMMA SentNone ==
  ASSUME NEW n \in [Slots -> Requests], NEW m \in Sent(n, {})
  PROVE  m = n
  BY DEF Sent

(* Several, in slots of their own.                                         *)
LEMMA SentSeveral ==
  ASSUME NEW n, NEW qs, \A q \in qs : q.call = "delete", NEW m \in Sent(n, qs)
  PROVE  /\ m = [s \in Slots |-> m[s]]
         /\ \A s \in Slots : m[s] = n[s] \/ (n[s].call = "none" /\ m[s] \in qs)
  <1> DEFINE free == {s \in Slots : n[s].call = "none"}
             over == {r.call : r \in qs} \cap {"list", "read"}
             At(f) == [s \in Slots |->
                        IF \E r \in qs : f[r] = s THEN CHOOSE r \in qs : f[r] = s
                        ELSE IF n[s].call \in over THEN [n[s] EXCEPT !.latest = FALSE] ELSE n[s]]
  <1>1. PICK f \in [qs -> free] : m = At(f)
    BY DEF Sent
  <1>2. over = {}
    OBVIOUS
  <1>3. ASSUME NEW s \in Slots
        PROVE  m[s] = n[s] \/ (n[s].call = "none" /\ m[s] \in qs)
    <2>1. CASE \E r \in qs : f[r] = s
      <3>1. m[s] = CHOOSE r \in qs : f[r] = s
        BY <1>1, <2>1
      <3>2. m[s] \in qs
        BY <3>1, <2>1
      <3>3. QED
        BY <3>2, <2>1, <1>1
    <2>2. CASE ~\E r \in qs : f[r] = s
      BY <1>1, <1>2, <2>2
    <2>3. QED
      BY <2>1, <2>2
  <1>4. QED
    BY <1>1, <1>3

(* What is known of a request just made.                                   *)
LEMMA OfRequest ==
  ASSUME NEW call \in {"list", "read", "delete", "rewrite"} \cup Saves, NEW id \in Ids \cup {0}
  PROVE  /\ Of(call, id) \in Request
         /\ Of(call, id).call = call /\ Of(call, id).id = id /\ Of(call, id).at = "sent"
         /\ Of(call, id).as = "live" /\ Of(call, id).mine = TRUE /\ Of(call, id).latest = TRUE
         /\ Of(call, id).permanent = FALSE
  BY DEF Of, Request, Saves, Exist

(* All that a request is, but for whether a later one overtook it.         *)
Alike(p, q) ==
  /\ p.call = q.call /\ p.id = q.id /\ p.permanent = q.permanent /\ p.as = q.as
  /\ p.at = q.at /\ p.mine = q.mine /\ p.ids = q.ids

(* The slots after one request was made.                                   *)
LEMMA AddedSlots ==
  ASSUME NEW n \in [Slots -> Requests], NEW s \in Slots, NEW q \in Requests
  PROVE  /\ Added(n, s, q) \in [Slots -> Requests]
         /\ Added(n, s, q)[s] = q
         /\ \A t \in Slots \ {s} :
              /\ Alike(Added(n, s, q)[t], n[t])
              /\ Added(n, s, q)[t].latest => n[t].latest /\ ~Overtakes(q, n[t])
  <1>1. ASSUME NEW t \in Slots, Overtakes(q, n[t])
        PROVE  /\ [n[t] EXCEPT !.latest = FALSE] \in Requests /\ Alike([n[t] EXCEPT !.latest = FALSE], n[t])
               /\ [n[t] EXCEPT !.latest = FALSE].latest = FALSE
    <2>1. n[t] \in Request
      BY <1>1 DEF Requests, NoRequest, Overtakes
    <2>2. QED
      BY <2>1 DEF Requests, Request, Alike
  <1>2. QED
    BY <1>1 DEF Added, Alike

(* What a request is known to be by the invariant.                         *)
LEMMA RequestFields ==
  ASSUME NEW q \in Requests
  PROVE  /\ q.call \in {"none", "list", "read", "delete", "rewrite", "create", "update"}
         /\ q.id \in Ids \cup {0} /\ q.as \in Exist \cup {"kept"}
         /\ q.at \in {"sent", "served", "failed"}
         /\ q.ids \subseteq Ids
  BY DEF Requests, Request, NoRequest, Saves, Exist

(* A list that is asked for is what the page waits for.                    *)
LEMMA ListIsAwaited ==
  /\ List \in Request /\ List \in Requests
  /\ List.call = "list" /\ List.mine = TRUE /\ List.at = "sent" /\ List.as = "live"
  BY DEF List, Of, Requests, Request, Exist

(* A step after which every request is what it was, maybe overtaken, and   *)
(* the page what it was but for its dialog and its box.                    *)
LEMMA DialogSteps ==
  ASSUME PageInv, TypeOK', BoxIsOfAsker',
         UNCHANGED <<kind, load, rows, view, shown, heard, failed, muddled>>,
         \A t \in Slots : Alike(net'[t], net[t]) /\ (net'[t].latest => net[t].latest)
  PROVE  /\ SavesUnderWay' = SavesUnderWay
         /\ OneHears' /\ ReadsAreOfRows' /\ SwitchesKeep' /\ LatestIsTrue' /\ TrueOrAwaited'
         /\ form'.as \in {"live", form.as} => NoneTrashed'
  <1> USE DEF PageInv
  <1>1. SavesUnderWay' = SavesUnderWay
    BY DEF SavesUnderWay, Saves, Alike
  <1>2. OneHears' /\ ReadsAreOfRows' /\ SwitchesKeep'
    BY DEF OneHears, ReadsAreOfRows, SwitchesKeep, Alike
  <1>3. LatestIsTrue'
    BY DEF LatestIsTrue, Answers, Expected, Alike
  <1>4. TrueOrAwaited'
    <2>1. Expected' = Expected
      BY DEF Expected
    <2>2. \A t \in Slots : Awaited(net[t]) => Awaited(net[t])'
      BY DEF Awaited, Alike
    <2>3. QED
      BY <2>1, <2>2 DEF TrueOrAwaited
  <1>5. form'.as \in {"live", form.as} => NoneTrashed'
    BY DEF NoneTrashed, HoldsAll, Alike
  <1>6. QED
    BY <1>1, <1>2, <1>3, <1>4, <1>5

(* newOrEdit without an id: no read fills the dialog any more.             *)
LEMMA OpenNewKeeps == PageInv /\ OpenNew => PageInv'
  <1> SUFFICES ASSUME PageInv, OpenNew
               PROVE  PageInv'
    OBVIOUS
  <1> USE DEF PageInv
  <1>1. net \in [Slots -> Requests]
    BY DEF TypeOK, Requests
  <1>2. /\ net' \in [Slots -> Requests]
        /\ \A t \in Slots : /\ Alike(net'[t], net[t])
                            /\ net'[t].latest => net[t].latest /\ net[t].call # "read"
    <2>1. ASSUME NEW t \in Slots, net[t].call = "read"
          PROVE  /\ [net[t] EXCEPT !.latest = FALSE] \in Requests /\ Alike([net[t] EXCEPT !.latest = FALSE], net[t])
                 /\ [net[t] EXCEPT !.latest = FALSE].latest = FALSE
      <3>1. net[t] \in Request
        BY <1>1, <2>1 DEF Requests, NoRequest
      <3>2. QED
        BY <3>1 DEF Requests, Request, Alike
    <2>2. QED
      BY <1>1, <2>1 DEF OpenNew, Alike
  <1>3. /\ form' \in Form /\ form'.busy = form.busy /\ form'.stuck = form.stuck
        /\ form'.wanted = 0 /\ form'.edit = FALSE /\ form'.as \in {"live", form.as}
        /\ form'.by = "this" => form'.id = 0
    BY DEF OpenNew, TypeOK, Form, Exist
  <1>4. TypeOK'
    <2>1. acts' \in 0..MaxActs
      BY AdminAssumption DEF TypeOK, OpenNew, Acts
    <2>2. QED
      BY <1>2, <1>3, <2>1 DEF TypeOK, OpenNew, Requests, HasTrash
  <1>5. BoxIsOfAsker'
    BY DEF OpenNew, BoxIsOfAsker, Ask
  <1>6. /\ SavesUnderWay' = SavesUnderWay
        /\ OneHears' /\ ReadsAreOfRows' /\ SwitchesKeep' /\ LatestIsTrue' /\ TrueOrAwaited'
        /\ NoneTrashed'
    BY <1>2, <1>3, <1>4, <1>5, DialogSteps DEF OpenNew
  <1>7. StuckIsBusy' /\ DialogRecovers'
    BY <1>3, <1>6 DEF StuckIsBusy, DialogRecovers
  <1>8. FilledAsOpened'
    BY <1>2, <1>3 DEF FilledAsOpened, Alike
  <1>9. QED
    BY <1>4, <1>5, <1>6, <1>7, <1>8

(* The dialog is closed, and keeps what it holds.                          *)
LEMMA CloseKeeps == PageInv /\ Close => PageInv'
  <1> SUFFICES ASSUME PageInv, Close
               PROVE  PageInv'
    OBVIOUS
  <1> USE DEF PageInv
  <1>1. /\ form' \in Form /\ form'.busy = form.busy /\ form'.stuck = form.stuck /\ form'.id = form.id
        /\ form'.wanted = form.wanted /\ form'.edit = form.edit /\ form'.as = form.as
        /\ form'.by = form.by
    BY DEF Close, TypeOK, Form
  <1>2. TypeOK'
    BY <1>1 DEF TypeOK, Close, HasTrash
  <1>3. BoxIsOfAsker'
    BY DEF Close, BoxIsOfAsker, Ask
  <1>4. /\ SavesUnderWay' = SavesUnderWay
        /\ OneHears' /\ ReadsAreOfRows' /\ SwitchesKeep' /\ LatestIsTrue' /\ TrueOrAwaited'
        /\ NoneTrashed'
    BY <1>1, <1>2, <1>3, DialogSteps DEF Close, Alike
  <1>5. StuckIsBusy' /\ DialogRecovers'
    BY <1>1, <1>4 DEF StuckIsBusy, DialogRecovers
  <1>6. FilledAsOpened'
    BY <1>1 DEF Close, FilledAsOpened
  <1>7. QED
    BY <1>2, <1>3, <1>4, <1>5, <1>6

(* What onSubmit makes of an input that is none, and of a list of names    *)
(* that never came: nothing, or a dialog that is stuck.                    *)
LEMMA StuckKeeps == PageInv /\ (SubmitInvalid \/ SubmitNameless) => PageInv'
  <1> SUFFICES ASSUME PageInv, SubmitInvalid \/ SubmitNameless
               PROVE  PageInv'
    OBVIOUS
  <1> USE DEF PageInv
  <1>1. /\ UNCHANGED <<kind, load, rows, view, shown, heard, box, names, net, acts, failed, muddled>>
        /\ ~form.busy
        /\ UNCHANGED form \/ Stuck
    BY DEF SubmitInvalid, SubmitNameless, Submits
  <1>2. /\ form' \in Form /\ form'.id = form.id
        /\ form'.wanted = form.wanted /\ form'.edit = form.edit /\ form'.as = form.as
        /\ form'.by = form.by
        /\ (form'.busy = form.busy /\ form'.stuck = form.stuck) \/ (form'.busy = TRUE /\ form'.stuck = TRUE)
    BY <1>1 DEF Stuck, TypeOK, Form
  <1>3. TypeOK'
    BY <1>1, <1>2 DEF TypeOK, HasTrash
  <1>4. BoxIsOfAsker'
    BY <1>1 DEF BoxIsOfAsker, Ask
  <1>5. /\ SavesUnderWay' = SavesUnderWay
        /\ OneHears' /\ ReadsAreOfRows' /\ SwitchesKeep' /\ LatestIsTrue' /\ TrueOrAwaited'
        /\ NoneTrashed'
    BY <1>1, <1>2, <1>3, <1>4, DialogSteps DEF Alike
  <1>6. StuckIsBusy' /\ DialogRecovers'
    BY <1>1, <1>2, <1>5 DEF StuckIsBusy, DialogRecovers
  <1>7. FilledAsOpened'
    BY <1>1, <1>2 DEF FilledAsOpened
  <1>8. QED
    BY <1>3, <1>4, <1>5, <1>6, <1>7

(* The names come, or the box is declined: nothing else changes.           *)
LEMMA NamesAnsweredKeeps == PageInv /\ (NamesAnswered \/ Decline) => PageInv'
  <1> SUFFICES ASSUME PageInv, NamesAnswered \/ Decline
               PROVE  PageInv'
    OBVIOUS
  <1> USE DEF PageInv
  <1>1. /\ UNCHANGED <<kind, load, rows, view, shown, heard, form, net, acts, failed, muddled>>
        /\ box' \in {box, NoBox} /\ names' \in {names, "have", "failed"}
    BY DEF NamesAnswered, Decline
  <1>2. TypeOK'
    BY <1>1 DEF TypeOK, HasTrash
  <1>3. BoxIsOfAsker'
    BY <1>1 DEF BoxIsOfAsker, Ask
  <1>4. /\ SavesUnderWay' = SavesUnderWay
        /\ OneHears' /\ ReadsAreOfRows' /\ SwitchesKeep' /\ LatestIsTrue' /\ TrueOrAwaited'
        /\ NoneTrashed'
    BY <1>1, <1>2, <1>3, DialogSteps DEF Alike
  <1>5. StuckIsBusy' /\ DialogRecovers'
    BY <1>1, <1>4 DEF StuckIsBusy, DialogRecovers
  <1>6. FilledAsOpened'
    BY <1>1 DEF FilledAsOpened
  <1>7. QED
    BY <1>2, <1>3, <1>4, <1>5, <1>6

(* The box names the target of the page that opens it.                     *)
LEMMA AskDeleteKeeps == ASSUME PageInv, NEW i \in Ids, AskDelete(i) PROVE PageInv'
  <1> USE DEF PageInv
  <1>1. view = "trash" => HasTrash(kind)
    BY DEF TypeOK
  <1>2. kind \in AdminKinds
    BY AdminAssumption DEF TypeOK
  <1>3. Ask(view).asks \in Targets
    BY <1>1, <1>2 DEF Ask, Targets, HasTrash, TypeOK, Views
  <1>4. box' \in Box /\ box'.target = Ask(view).asks /\ box'.from = view
    BY <1>3 DEF AskDelete, Box, TypeOK
  <1>5. TypeOK'
    <2>1. acts' \in 0..MaxActs
      BY AdminAssumption DEF TypeOK, AskDelete, Acts
    <2>2. QED
      BY <1>4, <2>1 DEF TypeOK, AskDelete, HasTrash
  <1>6. BoxIsOfAsker'
    BY <1>1, <1>4 DEF AskDelete, BoxIsOfAsker, Ask, TypeOK, Views, HasTrash
  <1>7. /\ SavesUnderWay' = SavesUnderWay
        /\ OneHears' /\ ReadsAreOfRows' /\ SwitchesKeep' /\ LatestIsTrue' /\ TrueOrAwaited'
        /\ NoneTrashed'
    BY <1>5, <1>6, DialogSteps DEF AskDelete, Alike
  <1>8. StuckIsBusy' /\ DialogRecovers'
    BY <1>7 DEF AskDelete, StuckIsBusy, DialogRecovers
  <1>9. FilledAsOpened'
    BY DEF AskDelete, FilledAsOpened
  <1>10. QED
    BY <1>5, <1>6, <1>7, <1>8, <1>9

(* A step that makes one request, and leaves the rest of the page alone    *)
(* but for its dialog and its box.                                         *)
LEMMA AskSteps ==
  ASSUME PageInv, UNCHANGED <<kind, load, rows, view, shown, heard, names, failed, muddled>>,
         box' \in {box, NoBox},
         (acts' = acts + 1 /\ acts < MaxActs) \/ acts' = acts, form' \in Form,
         NEW s \in Slots, net[s].call = "none",
         NEW q \in Request, net' = Added(net, s, q), q.at = "sent", q.mine,
         q.call = "read" => q.id \in Ids /\ q.as \in Exist,
         q.call = "rewrite" /\ view = "list" => q.as = "kept",
         HoldsAll => q.as # "trashed" /\ (q.call = "delete" => q.permanent) /\ form'.as # "trashed"
  PROVE  /\ net' \in [Slots -> Requests] /\ net'[s] = q
         /\ \A t \in Slots \ {s} :
              /\ Alike(net'[t], net[t])
              /\ net'[t].latest => net[t].latest /\ ~Overtakes(q, net[t])
         /\ TypeOK' /\ OneHears' /\ BoxIsOfAsker' /\ ReadsAreOfRows' /\ NoneTrashed' /\ SwitchesKeep'
         /\ LatestIsTrue' /\ TrueOrAwaited'
         /\ q.call \notin Saves => SavesUnderWay' = SavesUnderWay
         /\ q.call \in Saves => SavesUnderWay' = SavesUnderWay \cup {s}
  <1> USE DEF PageInv
  <1>1. net \in [Slots -> Requests] /\ q \in Requests
    BY DEF TypeOK, Requests
  <1>2. /\ net' \in [Slots -> Requests] /\ net'[s] = q
        /\ \A t \in Slots \ {s} : /\ Alike(net'[t], net[t])
                                  /\ net'[t].latest => net[t].latest /\ ~Overtakes(q, net[t])
    BY <1>1, AddedSlots
  <1>3. TypeOK'
    <2>1. acts' \in 0..MaxActs
      BY AdminAssumption DEF TypeOK
    <2>2. QED
      BY <1>2, <2>1 DEF TypeOK, Requests, HasTrash
  <1>4. OneHears' /\ BoxIsOfAsker'
    BY DEF OneHears, BoxIsOfAsker, Ask
  <1>5. ReadsAreOfRows' /\ NoneTrashed' /\ SwitchesKeep'
    BY <1>2 DEF ReadsAreOfRows, NoneTrashed, HoldsAll, SwitchesKeep, Alike
  <1>6. LatestIsTrue'
    BY <1>2 DEF LatestIsTrue, Answers, Expected, Alike
  <1>7. TrueOrAwaited'
    <2>1. Expected' = Expected
      BY DEF Expected
    <2>2. \A t \in Slots : Awaited(net[t]) => Awaited(net[t])'
      BY <1>2 DEF Awaited, Alike, Saves
    <2>3. QED
      BY <2>1, <2>2 DEF TrueOrAwaited
  <1>8. q.call \notin Saves => SavesUnderWay' = SavesUnderWay
    BY <1>2 DEF SavesUnderWay, Saves, Alike
  <1>9. q.call \in Saves => SavesUnderWay' = SavesUnderWay \cup {s}
    BY <1>2 DEF SavesUnderWay, Saves, Alike
  <1>10. QED
    BY <1>2, <1>3, <1>4, <1>5, <1>6, <1>7, <1>8, <1>9

(* The list is asked for again.                                            *)
LEMMA RefreshKeeps == PageInv /\ Refresh => PageInv'
  <1> SUFFICES ASSUME PageInv, Refresh
               PROVE  PageInv'
    OBVIOUS
  <1> USE DEF PageInv
  <1>1. PICK s \in Slots : net[s].call = "none" /\ net' = Added(net, s, List)
    BY SentOne DEF Refresh
  <1>2. /\ TypeOK' /\ OneHears' /\ BoxIsOfAsker' /\ ReadsAreOfRows' /\ NoneTrashed' /\ SwitchesKeep'
        /\ LatestIsTrue' /\ TrueOrAwaited' /\ SavesUnderWay' = SavesUnderWay
        /\ net' \in [Slots -> Requests] /\ net'[s] = List
        /\ \A t \in Slots \ {s} : Alike(net'[t], net[t]) /\ (net'[t].latest => net[t].latest)
    BY <1>1, AskSteps, ListIsAwaited DEF Refresh, Acts, Saves, TypeOK, NoneTrashed
  <1>3. StuckIsBusy' /\ DialogRecovers'
    BY <1>2 DEF Refresh, StuckIsBusy, DialogRecovers
  <1>4. FilledAsOpened'
    BY <1>2, ListIsAwaited DEF Refresh, FilledAsOpened, Alike
  <1>5. QED
    BY <1>2, <1>3, <1>4

(* newOrEdit with an id: its read is the last, and of the row wanted.      *)
LEMMA OpenEditKeeps == ASSUME PageInv, NEW i \in Ids, OpenEdit(i) PROVE PageInv'
  <1> USE DEF PageInv
  <1> DEFINE q == Of("read", i)
  <1>1. PICK s \in Slots : net[s].call = "none" /\ net' = Added(net, s, q)
    BY SentOne DEF OpenEdit
  <1>2. /\ q \in Request /\ q.call = "read" /\ q.id = i /\ q.at = "sent" /\ q.as = "live"
        /\ q.mine = TRUE
    BY DEF Of, Request, Exist
  <1>3. /\ form' \in Form /\ form'.as = form.as /\ form'.busy = form.busy /\ form'.stuck = form.stuck
        /\ form'.edit = TRUE /\ form'.wanted = i /\ form'.by = "nobody"
    BY DEF OpenEdit, TypeOK, Form
  <1> HIDE DEF q
  <1>4. /\ TypeOK' /\ OneHears' /\ BoxIsOfAsker' /\ ReadsAreOfRows' /\ NoneTrashed' /\ SwitchesKeep'
        /\ LatestIsTrue' /\ TrueOrAwaited' /\ SavesUnderWay' = SavesUnderWay
        /\ net' \in [Slots -> Requests] /\ net'[s] = q
        /\ \A t \in Slots \ {s} :
             /\ Alike(net'[t], net[t])
             /\ net'[t].latest => net[t].latest /\ ~Overtakes(q, net[t])
    BY <1>1, <1>2, <1>3, AskSteps DEF OpenEdit, Acts, Saves, Exist, NoneTrashed
  <1>5. StuckIsBusy' /\ DialogRecovers'
    BY <1>3, <1>4 DEF StuckIsBusy, DialogRecovers
  <1>6. FilledAsOpened'
    BY <1>2, <1>3, <1>4, AdminAssumption DEF FilledAsOpened, Alike, Overtakes
  <1>7. QED
    BY <1>4, <1>5, <1>6

(* A row is written back.                                                  *)
LEMMA RewriteKeeps == ASSUME PageInv, NEW i \in Ids, Rewrite(i) PROVE PageInv'
  <1> USE DEF PageInv
  <1> DEFINE q == [Of("rewrite", i) EXCEPT !.as = IF view = "list" THEN "kept" ELSE "live"]
  <1>1. PICK s \in Slots : net[s].call = "none" /\ net' = Added(net, s, q)
    BY SentOne DEF Rewrite
  <1>2. /\ q \in Request /\ q.call = "rewrite" /\ q.at = "sent" /\ q.mine = TRUE
        /\ q.as = IF view = "list" THEN "kept" ELSE "live"
    BY DEF Of, Request, Exist
  <1> HIDE DEF q
  <1>3. /\ TypeOK' /\ OneHears' /\ BoxIsOfAsker' /\ ReadsAreOfRows' /\ NoneTrashed' /\ SwitchesKeep'
        /\ LatestIsTrue' /\ TrueOrAwaited' /\ SavesUnderWay' = SavesUnderWay
        /\ net' \in [Slots -> Requests] /\ net'[s] = q
        /\ \A t \in Slots \ {s} : Alike(net'[t], net[t]) /\ (net'[t].latest => net[t].latest)
    BY <1>1, <1>2, AskSteps DEF Rewrite, Acts, Saves, NoneTrashed, TypeOK
  <1>4. StuckIsBusy' /\ DialogRecovers'
    BY <1>3 DEF Rewrite, StuckIsBusy, DialogRecovers
  <1>5. FilledAsOpened'
    BY <1>2, <1>3 DEF Rewrite, FilledAsOpened, Alike
  <1>6. QED
    BY <1>3, <1>4, <1>5

(* What a submit makes of the dialog.                                      *)
LEMMA SubmitSends ==
  ASSUME PageInv, Submit
  PROVE  \E s \in Slots, q \in Request :
           /\ net[s].call = "none" /\ net' = Added(net, s, q)
           /\ q.call = Saving(Mode) /\ q.call \in Saves
           /\ q.at = "sent" /\ q.mine = TRUE /\ q.id = form.id /\ q.as = form.as
  <1> USE DEF PageInv
  <1> DEFINE q == [Of(Saving(Mode), form.id) EXCEPT !.as = form.as]
  <1>1. PICK s \in Slots : net[s].call = "none" /\ net' = Added(net, s, q)
    BY SentOne DEF Submit
  <1>2. Saving(Mode) \in Saves
    BY DEF Saving, Saves
  <1>3. form.id \in Ids \cup {0} /\ form.as \in Exist
    BY DEF TypeOK, Form
  <1>4. /\ q \in Request /\ q.call = Saving(Mode) /\ q.at = "sent" /\ q.mine = TRUE
        /\ q.id = form.id /\ q.as = form.as
    BY <1>2, <1>3 DEF Of, Request, Exist
  <1> HIDE DEF q
  <1>5. QED
    BY <1>1, <1>2, <1>4

(* No save is under way when one is sent.                                  *)
LEMMA SubmitKeeps == PageInv /\ Submit => PageInv'
  <1> SUFFICES ASSUME PageInv, Submit
               PROVE  PageInv'
    OBVIOUS
  <1> USE DEF PageInv
  <1>1. PICK s \in Slots, q \in Request :
           /\ net[s].call = "none" /\ net' = Added(net, s, q)
           /\ q.call \in Saves /\ q.at = "sent" /\ q.mine = TRUE /\ q.as = form.as
    BY SubmitSends
  <1>2. /\ form' \in Form /\ form'.as = form.as /\ form'.busy = TRUE /\ form'.stuck = form.stuck
        /\ form'.id = form.id /\ form'.wanted = form.wanted /\ form'.edit = form.edit
        /\ form'.by = form.by
    BY DEF Submit, TypeOK, Form
  <1>3. /\ TypeOK' /\ OneHears' /\ BoxIsOfAsker' /\ ReadsAreOfRows' /\ NoneTrashed' /\ SwitchesKeep'
        /\ LatestIsTrue' /\ TrueOrAwaited' /\ SavesUnderWay' = SavesUnderWay \cup {s}
        /\ net' \in [Slots -> Requests] /\ net'[s] = q
        /\ \A t \in Slots \ {s} : Alike(net'[t], net[t]) /\ (net'[t].latest => net[t].latest)
    BY <1>1, <1>2, AskSteps DEF Submit, Saves, NoneTrashed
  <1>4. SavesUnderWay = {} /\ ~form.stuck
    BY DEF Submit, Submits, DialogRecovers, StuckIsBusy
  <1>5. StuckIsBusy' /\ DialogRecovers'
    BY <1>2, <1>3, <1>4 DEF StuckIsBusy, DialogRecovers
  <1>6. FilledAsOpened'
    BY <1>1, <1>2, <1>3 DEF FilledAsOpened, Alike, Saves
  <1>7. QED
    BY <1>3, <1>5, <1>6

(***************************************************************************)
(* What the tables of the kinds say.                                       *)
(***************************************************************************)
(* A page ends its subscription when it is left.  It hears the target that *)
(* it asks with, but for one of those that are shared.                     *)
LEMMA PagesAsk ==
  \A k \in AdminKinds :
    Pages[k].drops /\ (Pages[k].asks # Pages[k].hears => Pages[k].asks \in SharedTargets)
  BY DEF AdminKinds, Pages, SharedTargets, Page, DeploymentPage, StatefulsetPage,
         DaemonsetPage, CronjobPage, IngressPage, ConfigmapPage, SecretPage,
         PersistentvolumeclaimPage, AppPage, ClusterPage, NamespacePage, ServicePage,
         AutoscalePage, DeploymentTplPage, StatefulsetTplPage, DaemonsetTplPage,
         CronjobTplPage, IngressTplPage, ConfigmapTplPage, SecretTplPage,
         PersistentvolumeclaimTplPage, ServiceTplPage, AutoscaleTplPage, ConfigPage,
         ApiKeyPage, UserPage, GroupPage, PermissionPage, CustomLinkPage, RoadmapPage,
         AppUserPage, NamespaceUserPage, AppWebHookPage, NamespaceWebHookPage,
         AppApiKeyPage, NamespaceApiKeyPage, PortalAppPage

(* A trash does the same, of a kind that has a list.                       *)
LEMMA TrashesAsk ==
  \A k \in DOMAIN Trashes :
    k \in AdminKinds /\ Trashes[k].drops /\ Trashes[k].asks = Trashes[k].hears
  BY DEF AdminKinds, Pages, Trashes, Trash, DeploymentTrash, StatefulsetTrash,
         DaemonsetTrash, CronjobTrash, IngressTrash, ConfigmapTrash, SecretTrash,
         PersistentvolumeclaimTrash, AppTrash, ClusterTrash, NamespaceTrash, ServiceTrash,
         AutoscaleTrash, DeploymentTplTrash, StatefulsetTplTrash, DaemonsetTplTrash,
         CronjobTplTrash, IngressTplTrash, ConfigmapTplTrash, SecretTplTrash,
         PersistentvolumeclaimTplTrash, ServiceTplTrash, AutoscaleTplTrash

(* Who hears what another kind asks with shares the target.                *)
LEMMA PagesApart ==
  \A k, j \in AdminKinds :
    k # j /\ Pages[k].hears = Pages[j].asks => Pages[k].hears \in SharedTargets
  BY SMTT(60) DEF AdminKinds, Pages, SharedTargets, Page, DeploymentPage, StatefulsetPage,
         DaemonsetPage, CronjobPage, IngressPage, ConfigmapPage, SecretPage,
         PersistentvolumeclaimPage, AppPage, ClusterPage, NamespacePage, ServicePage,
         AutoscalePage, DeploymentTplPage, StatefulsetTplPage, DaemonsetTplPage,
         CronjobTplPage, IngressTplPage, ConfigmapTplPage, SecretTplPage,
         PersistentvolumeclaimTplPage, ServiceTplPage, AutoscaleTplPage, ConfigPage,
         ApiKeyPage, UserPage, GroupPage, PermissionPage, CustomLinkPage, RoadmapPage,
         AppUserPage, NamespaceUserPage, AppWebHookPage, NamespaceWebHookPage,
         AppApiKeyPage, NamespaceApiKeyPage, PortalAppPage

(* The same between two trashes,                                           *)
LEMMA TrashesApart ==
  \A k, j \in DOMAIN Trashes :
    k # j /\ Trashes[k].hears = Trashes[j].asks => Trashes[k].hears \in SharedTargets
  BY SMTT(60) DEF SharedTargets, Trashes, Trash, DeploymentTrash, StatefulsetTrash, DaemonsetTrash,
         CronjobTrash, IngressTrash, ConfigmapTrash, SecretTrash,
         PersistentvolumeclaimTrash, AppTrash, ClusterTrash, NamespaceTrash, ServiceTrash,
         AutoscaleTrash, DeploymentTplTrash, StatefulsetTplTrash, DaemonsetTplTrash,
         CronjobTplTrash, IngressTplTrash, ConfigmapTplTrash, SecretTplTrash,
         PersistentvolumeclaimTplTrash, ServiceTplTrash, AutoscaleTplTrash

(* and between a page and a trash, be it of the same kind.                 *)
LEMMA PagesAndTrashesApart ==
  \A k \in AdminKinds, j \in DOMAIN Trashes :
    /\ Pages[k].hears = Trashes[j].asks => Pages[k].hears \in SharedTargets
    /\ Pages[k].asks = Trashes[j].hears => Pages[k].asks \in SharedTargets
  BY SMTT(60) DEF AdminKinds, Pages, Trashes, SharedTargets, Page, Trash, DeploymentPage,
         StatefulsetPage, DaemonsetPage, CronjobPage, IngressPage, ConfigmapPage,
         SecretPage, PersistentvolumeclaimPage, AppPage, ClusterPage, NamespacePage,
         ServicePage, AutoscalePage, DeploymentTplPage, StatefulsetTplPage,
         DaemonsetTplPage, CronjobTplPage, IngressTplPage, ConfigmapTplPage, SecretTplPage,
         PersistentvolumeclaimTplPage, ServiceTplPage, AutoscaleTplPage, ConfigPage,
         ApiKeyPage, UserPage, GroupPage, PermissionPage, CustomLinkPage, RoadmapPage,
         AppUserPage, NamespaceUserPage, AppWebHookPage, NamespaceWebHookPage,
         AppApiKeyPage, NamespaceApiKeyPage, PortalAppPage, DeploymentTrash,
         StatefulsetTrash, DaemonsetTrash, CronjobTrash, IngressTrash, ConfigmapTrash,
         SecretTrash, PersistentvolumeclaimTrash, AppTrash, ClusterTrash, NamespaceTrash,
         ServiceTrash, AutoscaleTrash, DeploymentTplTrash, StatefulsetTplTrash,
         DaemonsetTplTrash, CronjobTplTrash, IngressTplTrash, ConfigmapTplTrash,
         SecretTplTrash, PersistentvolumeclaimTplTrash, ServiceTplTrash, AutoscaleTplTrash

(* What a page hears, some page asks with.                                 *)
LEMMA HearsTargets == \A k \in AdminKinds : Pages[k].hears \in Targets
  <1>1. \A k \in AdminKinds : k # "ingresstpl" => Pages[k].hears = Pages[k].asks
    BY DEF AdminKinds, Pages, Page, DeploymentPage, StatefulsetPage, DaemonsetPage,
           CronjobPage, IngressPage, ConfigmapPage, SecretPage, PersistentvolumeclaimPage,
           AppPage, ClusterPage, NamespacePage, ServicePage, AutoscalePage, DeploymentTplPage,
           StatefulsetTplPage, DaemonsetTplPage, CronjobTplPage, IngressTplPage,
           ConfigmapTplPage, SecretTplPage, PersistentvolumeclaimTplPage, ServiceTplPage,
           AutoscaleTplPage, ConfigPage, ApiKeyPage, UserPage, GroupPage, PermissionPage,
           CustomLinkPage, RoadmapPage, AppUserPage, NamespaceUserPage, AppWebHookPage,
           NamespaceWebHookPage, AppApiKeyPage, NamespaceApiKeyPage, PortalAppPage
  <1>2. /\ "servicetpl" \in AdminKinds
        /\ Pages["ingresstpl"].hears = Pages["servicetpl"].asks
    BY DEF AdminKinds, Pages, Page, IngressTplPage, ServiceTplPage
  <1>3. QED
    BY <1>1, <1>2 DEF Targets

(* A kind with a trash asks for what it lists and deletes; without one, a  *)
(* list that holds every row is of a kind whose rows are deleted for good, *)
(* or of the API keys.                                                     *)
LEMMA ClientsList ==
  \A k \in AdminKinds :
    /\ Clients[k].lists \in {"asked", "live", "all"}
    /\ Clients[k].deletes \in {"asked", "logical", "permanent"}
    /\ HasTrash(k) <=> Clients[k].lists = "asked"
    /\ HasTrash(k) => Clients[k].deletes = "asked"
    /\ k = "apikey" => Clients[k].lists = "all"
    /\ Clients[k].lists = "all" /\ k # "apikey" => Clients[k].deletes = "permanent"
  BY SMTT(60) DEF AdminKinds, Pages, Trashes, HasTrash, Clients, Client, Memberships,
         DeploymentClient, StatefulsetClient, DaemonsetClient, CronjobClient, IngressClient,
         ConfigmapClient, SecretClient, PersistentvolumeclaimClient, AppClient,
         ClusterClient, NamespaceClient, ServiceClient, AutoscaleClient,
         DeploymentTplClient, StatefulsetTplClient, DaemonsetTplClient, CronjobTplClient,
         IngressTplClient, ConfigmapTplClient, SecretTplClient,
         PersistentvolumeclaimTplClient, ServiceTplClient, AutoscaleTplClient, ConfigClient,
         ApiKeyClient, UserClient, GroupClient, PermissionClient, CustomLinkClient,
         RoadmapClient, AppUserClient, NamespaceUserClient, AppWebHookClient,
         NamespaceWebHookClient, AppApiKeyClient, NamespaceApiKeyClient, PortalAppClient

(* The box as it is confirmed: the page that is shown deletes, if it       *)
(* listens to the target, and nobody else does.                            *)
Heard == Ask(view).hears = box.target

(* One deletion of the row in the box, or none.                            *)
LEMMA ConfirmSends ==
  ASSUME PageInv, Confirm
  PROVE  /\ ~Heard => net' = net
         /\ Heard => \E s \in Slots, q \in Request :
                       /\ net[s].call = "none" /\ net' = Added(net, s, q)
                       /\ q.call = "delete" /\ q.id = box.id /\ q.permanent = Permanent(view)
                       /\ q.at = "sent" /\ q.mine = TRUE /\ q.as = "live"
  <1> USE DEF PageInv
  <1> DEFINE At(v) == [Of("delete", box.id) EXCEPT !.permanent = Permanent(v), !.mine = v = view]
             q == At(view)
  <1>1. net' \in Sent(net, {At(v) : v \in {w \in heard : Ask(w).hears = box.target}})
    BY DEF Confirm
  <1>2. {w \in heard : Ask(w).hears = box.target} = IF Heard THEN {view} ELSE {}
    BY DEF OneHears, Heard
  <1>3. ASSUME ~Heard
        PROVE  net' = net
    <2>1. net \in [Slots -> Requests]
      BY DEF TypeOK, Requests
    <2>2. {At(v) : v \in {w \in heard : Ask(w).hears = box.target}} = {}
      BY <1>2, <1>3
    <2>3. net' \in Sent(net, {})
      BY <1>1, <2>2
    <2>4. QED
      BY <2>1, <2>3, SentNone
  <1>4. ASSUME Heard
        PROVE  \E s \in Slots : net[s].call = "none" /\ net' = Added(net, s, q)
    <2>1. {At(v) : v \in {w \in heard : Ask(w).hears = box.target}} = {At(v) : v \in {view}}
      BY <1>2, <1>4
    <2>2. {At(v) : v \in {view}} = {q}
      OBVIOUS
    <2>3. net' \in Sent(net, {q})
      BY <1>1, <2>1, <2>2
    <2> HIDE DEF q, At
    <2>4. QED
      BY <2>3, SentOne
  <1>5. Permanent(view) \in BOOLEAN
    BY ClientsList, AdminAssumption DEF Permanent, TypeOK
  <1>6. box.id \in Ids
    BY DEF Confirm, BoxIsOfAsker, Box
  <1>7. /\ q \in Request /\ q.call = "delete" /\ q.id = box.id /\ q.permanent = Permanent(view)
        /\ q.at = "sent" /\ q.mine = TRUE /\ q.as = "live"
    BY <1>5, <1>6 DEF Of, Request, Exist
  <1> HIDE DEF q, At
  <1>8. QED
    BY <1>3, <1>4, <1>7

(* A deletion is under way, or nobody has heard.                           *)
LEMMA ConfirmKeeps == PageInv /\ Confirm => PageInv'
  <1> SUFFICES ASSUME PageInv, Confirm
               PROVE  PageInv'
    OBVIOUS
  <1> USE DEF PageInv
  <1>1. CASE ~Heard
    <2>1. net' = net
      BY <1>1, ConfirmSends
    <2>2. TypeOK' /\ BoxIsOfAsker'
      BY <2>1 DEF Confirm, TypeOK, BoxIsOfAsker, HasTrash
    <2>3. /\ SavesUnderWay' = SavesUnderWay
          /\ OneHears' /\ ReadsAreOfRows' /\ SwitchesKeep' /\ LatestIsTrue' /\ TrueOrAwaited'
          /\ NoneTrashed'
      BY <2>1, <2>2, DialogSteps DEF Confirm, Alike
    <2>4. StuckIsBusy' /\ DialogRecovers' /\ FilledAsOpened'
      BY <2>1, <2>3 DEF Confirm, StuckIsBusy, DialogRecovers, FilledAsOpened
    <2>5. QED
      BY <2>2, <2>3, <2>4
  <1>2. CASE Heard
    <2>1. PICK s \in Slots, q \in Request :
            /\ net[s].call = "none" /\ net' = Added(net, s, q)
            /\ q.call = "delete" /\ q.permanent = Permanent(view)
            /\ q.at = "sent" /\ q.mine = TRUE /\ q.as = "live"
      BY <1>2, ConfirmSends
    <2>2. HoldsAll => Permanent(view)
      BY ClientsList, AdminAssumption DEF Permanent, TypeOK, HoldsAll
    <2>3. /\ TypeOK' /\ OneHears' /\ BoxIsOfAsker' /\ ReadsAreOfRows' /\ NoneTrashed' /\ SwitchesKeep'
          /\ LatestIsTrue' /\ TrueOrAwaited' /\ SavesUnderWay' = SavesUnderWay
          /\ net' \in [Slots -> Requests] /\ net'[s] = q
          /\ \A t \in Slots \ {s} : Alike(net'[t], net[t]) /\ (net'[t].latest => net[t].latest)
      BY <2>1, <2>2, AskSteps DEF Confirm, Saves, NoneTrashed, TypeOK
    <2>4. StuckIsBusy' /\ DialogRecovers'
      BY <2>3 DEF Confirm, StuckIsBusy, DialogRecovers
    <2>5. form' = form
      BY DEF Confirm
    <2>6. FilledAsOpened'
      BY <2>1, <2>3, <2>5 DEF FilledAsOpened, Alike
    <2>7. QED
      BY <2>3, <2>4, <2>6
  <1>3. QED
    BY <1>1, <1>2

(***************************************************************************)
(* A page is entered.                                                      *)
(***************************************************************************)
(* What is left under way is nothing to the new page.                      *)
LEMMA LeftSlots ==
  ASSUME net \in [Slots -> Requests]
  PROVE  /\ Left \in [Slots -> Requests]
         /\ \A s \in Slots : /\ Left[s].call = net[s].call /\ Left[s].id = net[s].id
                             /\ Left[s].as = net[s].as /\ Left[s].permanent = net[s].permanent
                             /\ Left[s].mine = FALSE /\ Left[s].latest = FALSE
  <1> DEFINE Leave(q) == [q EXCEPT !.mine = FALSE, !.latest = FALSE]
             None == [call : {"none"}, id : {0}, permanent : {FALSE}, as : {"live"}, at : {"sent"},
                      mine : {FALSE}, latest : {FALSE}, ids : {{}}]
  <1>1. Leave(NoRequest) = NoRequest
    <2>1. NoRequest \in None
      BY DEF NoRequest
    <2>2. Leave(NoRequest) \in None
      BY <2>1
    <2>3. QED
      BY <2>1, <2>2
  <1>2. ASSUME NEW q \in Requests
        PROVE  /\ Leave(q) \in Requests /\ Leave(q).call = q.call /\ Leave(q).id = q.id
               /\ Leave(q).as = q.as /\ Leave(q).permanent = q.permanent
               /\ Leave(q).mine = FALSE /\ Leave(q).latest = FALSE
    <2>1. CASE q \in Request
      BY <2>1 DEF Requests, Request
    <2>2. CASE q = NoRequest
      BY <1>1, <2>2 DEF Requests, NoRequest
    <2>3. QED
      BY <2>1, <2>2 DEF Requests
  <1>3. \A s \in Slots : Left[s] = Leave(net[s])
    BY DEF Left
  <1>4. Left = [s \in Slots |-> Left[s]]
    BY DEF Left
  <1>5. ASSUME NEW s \in Slots
        PROVE  /\ Left[s] \in Requests /\ Left[s].call = net[s].call /\ Left[s].id = net[s].id
               /\ Left[s].as = net[s].as /\ Left[s].permanent = net[s].permanent
               /\ Left[s].mine = FALSE /\ Left[s].latest = FALSE
    <2>1. net[s] \in Requests /\ Left[s] = Leave(net[s])
      BY <1>3
    <2> HIDE DEF Leave
    <2>2. QED
      BY <1>2, <2>1
  <1>6. Left \in [Slots -> Requests]
    BY <1>4, <1>5
  <1>7. QED
    BY <1>5, <1>6

(* A box that another kind of row has left open shows a shared target.     *)
LEMMA ElsewhereIsShared ==
  ASSUME TypeOK, NEW v \in Views, v = "trash" => HasTrash(kind), NEW b \in Elsewhere(v)
  PROVE  b \in Box /\ b.from = "elsewhere" /\ b.target \in SharedTargets
  <1> DEFINE t == Ask(v).hears
  <1>1. kind \in AdminKinds
    BY AdminAssumption DEF TypeOK
  <1>2. t \in Targets
    BY <1>1, HearsTargets, TrashesAsk DEF Ask, Views, HasTrash, Targets
  <1>3. b \in [target : {t}, id : Ids, from : {"elsewhere"}] /\ ~(AskedBy[t] \subseteq {kind})
    BY DEF Elsewhere
  <1>4. b \in Box /\ b.from = "elsewhere" /\ b.target = t
    BY <1>2, <1>3 DEF Box
  <1>5. PICK k : k \in AskedBy[t] /\ k # kind
    BY <1>3
  <1>6. \/ k \in AdminKinds /\ Pages[k].asks = t
        \/ k \in DOMAIN Trashes /\ Trashes[k].asks = t
    BY <1>2, <1>5 DEF AskedBy
  <1>7. CASE v = "list"
    <2>1. t = Pages[kind].hears
      BY <1>7 DEF Ask
    <2>2. QED
      BY <1>1, <1>4, <1>5, <1>6, <2>1, PagesApart, PagesAndTrashesApart
  <1>8. CASE v = "trash"
    <2>1. t = Trashes[kind].hears /\ kind \in DOMAIN Trashes
      BY <1>8 DEF Ask, HasTrash
    <2>2. QED
      BY <1>1, <1>4, <1>5, <1>6, <2>1, TrashesApart, PagesAndTrashesApart
  <1>9. QED
    BY <1>7, <1>8 DEF Views

(* The page that is entered waits for its first list.                      *)
LEMMA EnterKeeps == ASSUME PageInv, NEW v \in Views, Enter(v) PROVE PageInv'
  <1> USE DEF PageInv
  <1>1. net \in [Slots -> Requests] /\ kind \in AdminKinds
    BY AdminAssumption DEF TypeOK, Requests
  <1>2. PICK s \in Slots : Left[s].call = "none" /\ net' = Added(Left, s, List)
    BY SentOne DEF Enter
  <1>3. /\ net' \in [Slots -> Requests] /\ net'[s] = List
        /\ \A t \in Slots \ {s} : /\ net'[t].call = net[t].call /\ net'[t].id = net[t].id
                                  /\ net'[t].as = net[t].as /\ net'[t].permanent = net[t].permanent
                                  /\ net'[t].mine = FALSE
    <2>1. Left \in [Slots -> Requests] /\ List \in Requests
      BY <1>1, LeftSlots, ListIsAwaited
    <2>2. /\ net' \in [Slots -> Requests] /\ net'[s] = List
          /\ \A t \in Slots \ {s} : Alike(net'[t], Left[t])
      BY <1>2, <2>1, AddedSlots
    <2>3. QED
      BY <1>1, <2>2, LeftSlots DEF Alike
  <1>4. box' = box \/ (box = NoBox /\ box' \in Elsewhere(v))
    BY DEF Enter
  <1>5. /\ UNCHANGED <<kind, load, rows, failed>> /\ view' = v /\ shown' = {} /\ names' = "asked"
        /\ form' = NewForm /\ muddled' = FALSE
        /\ acts' = acts + 1 /\ acts < MaxActs
        /\ v = "trash" => HasTrash(kind)
    BY DEF Enter
  <1>6. box' # box => box' \in Box /\ box'.from = "elsewhere" /\ box'.target \in SharedTargets
    BY <1>4, <1>5, ElsewhereIsShared
  <1>7. heard' = {v}
    <2>1. \A w \in heard : Ask(w).drops
      BY <1>1, PagesAsk, TrashesAsk DEF Ask, TypeOK, Views, HasTrash
    <2>2. QED
      BY <2>1 DEF Enter
  <1>8. NewForm \in Form
    BY DEF NewForm, Form, Exist
  <1>9. TypeOK'
    <2>1. acts' \in 0..MaxActs
      BY <1>5, AdminAssumption DEF TypeOK
    <2>2. box' \in Box \cup {NoBox}
      BY <1>6 DEF TypeOK
    <2>3. QED
      BY <1>3, <1>5, <1>7, <1>8, <2>1, <2>2 DEF TypeOK, Requests, HasTrash
  <1>10. OneHears' /\ BoxIsOfAsker'
    BY <1>5, <1>6, <1>7 DEF OneHears, BoxIsOfAsker, Ask, HasTrash, Views
  <1>11. SavesUnderWay' = {}
    BY <1>3, ListIsAwaited DEF SavesUnderWay, Saves
  <1>12. StuckIsBusy' /\ DialogRecovers'
    BY <1>5, <1>11 DEF NewForm, StuckIsBusy, DialogRecovers
  <1>13. FilledAsOpened' /\ ReadsAreOfRows'
    BY <1>3, <1>5, ListIsAwaited DEF FilledAsOpened, ReadsAreOfRows, NewForm
  <1>14. NoneTrashed' /\ SwitchesKeep'
    BY <1>3, <1>5, ListIsAwaited DEF NoneTrashed, HoldsAll, SwitchesKeep, NewForm
  <1>15. LatestIsTrue' /\ TrueOrAwaited'
    BY <1>3, ListIsAwaited DEF LatestIsTrue, Answers, TrueOrAwaited, Awaited
  <1>16. QED
    BY <1>9, <1>10, <1>12, <1>13, <1>14, <1>15

(***************************************************************************)
(* The server.                                                             *)
(***************************************************************************)
(* What is listed for a page is what is expected of it.                    *)
LEMMA ListedIsExpected == ASSUME PageInv PROVE Listed(view) = Expected
  <1> USE DEF PageInv
  <1>1. /\ view \in {"list", "trash"} /\ (view = "trash" => HasTrash(kind))
        /\ kind \in AdminKinds /\ \A i \in Ids : rows[i] \in RowStates
    BY AdminAssumption DEF TypeOK, Views
  <1>2. CASE Clients[kind].lists = "asked"
    <2>1. kind # "apikey"
      BY <1>1, <1>2, ClientsList
    <2>2. QED
      BY <1>1, <1>2, <2>1 DEF Listed, Expected, Exist
  <1>3. CASE Clients[kind].lists = "all"
    <2>1. view = "list"
      BY <1>1, <1>3, ClientsList
    <2>2. CASE kind = "apikey"
      BY <1>3, <2>1, <2>2 DEF Listed, Expected, Exist
    <2>3. CASE kind # "apikey"
      <3>1. \A i \in Ids : rows[i] # "trashed"
        BY <1>3, <2>3 DEF NoneTrashed, HoldsAll
      <3>2. QED
        BY <1>3, <2>1, <2>3, <3>1 DEF Listed, Expected, Exist
    <2>4. QED
      BY <2>2, <2>3
  <1>4. CASE Clients[kind].lists = "live"
    <2>1. view = "list" /\ kind # "apikey"
      BY <1>1, <1>4, ClientsList
    <2>2. QED
      BY <1>4, <2>1 DEF Listed, Expected, Exist
  <1>5. QED
    BY <1>1, <1>2, <1>3, <1>4, ClientsList

(* What a change makes of the table and of the requests.                   *)
LEMMA ChangeServed ==
  ASSUME PageInv, NEW s \in Slots, ServeChange(s)
  PROVE  /\ UNCHANGED <<kind, load, view, shown, heard, box, names, form, acts, failed>>
         /\ muddled' = (muddled \/ ~net[s].mine)
         /\ net[s].call \in {"delete", "update", "rewrite", "create"}
         /\ rows' \in [Ids -> RowStates]
         /\ HoldsAll => \A i \in Ids : rows'[i] # "trashed"
         /\ net[s].mine /\ net[s].call = "rewrite" /\ view = "list" => rows' = rows
         /\ net' \in [Slots -> Requests]
         /\ net'[s].call = net[s].call /\ net'[s].id = net[s].id /\ net'[s].as = net[s].as
         /\ net'[s].permanent = net[s].permanent /\ net'[s].mine = net[s].mine
         /\ \A t \in Slots \ {s} :
              /\ Alike(net'[t], net[t])
              /\ net'[t].latest => net[t].latest /\ ~(net[t].call = "list" /\ net[t].at = "served")
  <1> USE DEF PageInv
  <1>1. net[s] \in Requests /\ net[s].call \in {"delete", "update", "rewrite", "create"}
    BY DEF TypeOK, Requests, ServeChange, Deletes, Writes, Creates
  <1>2. net[s] \in Request
    BY <1>1 DEF Requests, NoRequest
  <1>3. PICK at \in {"served", "failed"} : Changed(s, at)
    BY DEF ServeChange
  <1>4. net' = [t \in Slots |->
               IF t = s THEN [net[t] EXCEPT !.at = at]
               ELSE IF net[t].call = "list" /\ net[t].at = "served"
                      THEN [net[t] EXCEPT !.latest = FALSE]
               ELSE net[t]]
    BY <1>3 DEF Changed
  <1>5. /\ net'[s] \in Requests
        /\ net'[s].call = net[s].call /\ net'[s].id = net[s].id /\ net'[s].as = net[s].as
        /\ net'[s].permanent = net[s].permanent /\ net'[s].mine = net[s].mine
    BY <1>2, <1>4 DEF Request, Requests
  <1>6. ASSUME NEW t \in Slots \ {s}
        PROVE  /\ net'[t] \in Requests /\ Alike(net'[t], net[t])
               /\ net'[t].latest => net[t].latest /\ ~(net[t].call = "list" /\ net[t].at = "served")
    <2>1. net[t] \in Requests
      BY DEF TypeOK, Requests
    <2>2. CASE net[t].call = "list" /\ net[t].at = "served"
      <3>1. net[t] \in Request
        BY <2>1, <2>2 DEF Requests, NoRequest
      <3>2. net'[t] = [net[t] EXCEPT !.latest = FALSE]
        BY <1>4, <2>2
      <3>3. QED
        BY <3>1, <3>2 DEF Request, Requests, Alike
    <2>3. CASE ~(net[t].call = "list" /\ net[t].at = "served")
      BY <1>4, <2>1, <2>3 DEF Alike
    <2>4. QED
      BY <2>2, <2>3
  <1>7. net' \in [Slots -> Requests]
    BY <1>4, <1>5, <1>6
  <1>8. rows \in [Ids -> RowStates] /\ net[s].as \in {"live", "trashed", "kept"}
        /\ net[s].id \in Ids \cup {0}
    BY <1>1, RequestFields DEF TypeOK, Exist
  <1>9. CASE Deletes(net[s])
    <2>1. /\ rows' = [rows EXCEPT ![net[s].id] = IF net[s].permanent THEN "gone" ELSE "trashed"]
          /\ net[s].call = "delete"
      BY <1>9 DEF Deletes, Row
    <2>2. HoldsAll => net[s].permanent /\ \A i \in Ids : rows[i] # "trashed"
      BY <2>1 DEF NoneTrashed
    <2>3. rows' \in [Ids -> RowStates] /\ (HoldsAll => \A i \in Ids : rows'[i] # "trashed")
      BY <1>8, <2>1, <2>2 DEF RowStates
    <2>4. QED
      BY <1>1, <1>3, <1>5, <1>6, <1>7, <2>1, <2>3 DEF ServeChange, Changed
  <1>10. CASE Writes(net[s])
    <2>1. /\ rows' = [rows EXCEPT ![net[s].id] = IF net[s].as = "kept" THEN rows[net[s].id] ELSE net[s].as]
          /\ net[s].id \in Ids
      BY <1>8, <1>10 DEF Writes, Row
    <2>2. HoldsAll => net[s].as # "trashed" /\ \A i \in Ids : rows[i] # "trashed"
      BY DEF NoneTrashed
    <2>3. rows' \in [Ids -> RowStates] /\ (HoldsAll => \A i \in Ids : rows'[i] # "trashed")
      BY <1>8, <2>1, <2>2 DEF RowStates
    <2>4. net[s].mine /\ net[s].call = "rewrite" /\ view = "list" => rows' = rows
      BY <1>8, <2>1 DEF SwitchesKeep
    <2>5. QED
      BY <1>1, <1>3, <1>5, <1>6, <1>7, <2>3, <2>4 DEF ServeChange, Changed
  <1>11. CASE Creates(net[s])
    <2>1. PICK i \in Ids : rows' = [rows EXCEPT ![i] = "live"]
      BY <1>11 DEF Creates, Row
    <2>2. rows' \in [Ids -> RowStates] /\ (HoldsAll => \A j \in Ids : rows'[j] # "trashed")
      BY <1>8, <2>1 DEF RowStates, NoneTrashed
    <2>3. net[s].call # "rewrite"
      BY <1>11 DEF Creates
    <2>4. QED
      BY <1>1, <1>3, <1>5, <1>6, <1>7, <2>2, <2>3 DEF ServeChange, Changed
  <1>12. QED
    BY <1>9, <1>10, <1>11 DEF ServeChange

(* The page waits for the answer of what has changed the table, or the     *)
(* list is muddled.                                                        *)
LEMMA ServeChangeKeeps == ASSUME PageInv, NEW s \in Slots, ServeChange(s) PROVE PageInv'
  <1> USE DEF PageInv
  <1>1. /\ UNCHANGED <<kind, load, view, shown, heard, box, names, form, acts, failed>>
        /\ muddled' = (muddled \/ ~net[s].mine)
        /\ net[s].call \in {"delete", "update", "rewrite", "create"}
        /\ rows' \in [Ids -> RowStates]
        /\ HoldsAll => \A i \in Ids : rows'[i] # "trashed"
        /\ net[s].mine /\ net[s].call = "rewrite" /\ view = "list" => rows' = rows
    BY ChangeServed
  <1>2. /\ net' \in [Slots -> Requests]
        /\ net'[s].call = net[s].call /\ net'[s].id = net[s].id /\ net'[s].as = net[s].as
        /\ net'[s].permanent = net[s].permanent /\ net'[s].mine = net[s].mine
        /\ \A t \in Slots \ {s} :
             /\ Alike(net'[t], net[t])
             /\ net'[t].latest => net[t].latest /\ ~(net[t].call = "list" /\ net[t].at = "served")
    BY ChangeServed
  <1>3. TypeOK'
    <2>1. muddled' \in BOOLEAN
      BY <1>1
    <2>2. QED
      BY <1>1, <1>2, <2>1 DEF TypeOK, Requests, HasTrash
  <1>4. OneHears' /\ BoxIsOfAsker'
    BY <1>1 DEF OneHears, BoxIsOfAsker, Ask
  <1>5. SavesUnderWay' = SavesUnderWay
    BY <1>2 DEF SavesUnderWay, Alike
  <1>6. StuckIsBusy' /\ DialogRecovers'
    BY <1>1, <1>5 DEF StuckIsBusy, DialogRecovers
  <1>7. FilledAsOpened' /\ ReadsAreOfRows'
    BY <1>1, <1>2 DEF FilledAsOpened, ReadsAreOfRows, Alike
  <1>8. NoneTrashed' /\ SwitchesKeep'
    BY <1>1, <1>2 DEF NoneTrashed, HoldsAll, SwitchesKeep, Alike
  <1>9. LatestIsTrue'
    BY <1>1, <1>2 DEF LatestIsTrue, Answers, Alike
  <1>10. TrueOrAwaited'
    <2>1. SUFFICES ASSUME ~failed, ~muddled, net[s].mine
                   PROVE  shown = Expected' \/ \E t \in Slots : Awaited(net[t])'
      BY <1>1 DEF TrueOrAwaited
    <2>2. CASE net[s].call # "rewrite" \/ view # "list"
      <3>1. view \in {"list", "trash"}
        BY DEF TypeOK, Views
      <3>2. Awaited(net[s])'
        BY <1>1, <1>2, <2>1, <2>2, <3>1 DEF Awaited, Saves
      <3>3. QED
        BY <3>2
    <2>3. CASE net[s].call = "rewrite" /\ view = "list"
      <3>1. Expected' = Expected
        BY <1>1, <2>1, <2>3 DEF Expected
      <3>2. \A t \in Slots : Awaited(net[t]) => Awaited(net[t])'
        BY <1>1, <1>2 DEF Awaited, Alike
      <3>3. QED
        BY <2>1, <3>1, <3>2 DEF TrueOrAwaited
    <2>4. QED
      BY <2>2, <2>3
  <1>11. QED
    BY <1>3, <1>4, <1>6, <1>7, <1>8, <1>9, <1>10

(* A read is answered as the table is.                                     *)
LEMMA ReadServed ==
  ASSUME PageInv, NEW s \in Slots, ServeRead(s)
  PROVE  /\ net' \in [Slots -> Requests] /\ \A t \in Slots \ {s} : net'[t] = net[t]
         /\ net[s].call \in {"list", "read"}
         /\ net'[s].call = net[s].call /\ net'[s].id = net[s].id /\ net'[s].mine = net[s].mine
         /\ net'[s].latest = net[s].latest /\ net'[s].permanent = net[s].permanent
         /\ net[s].call = "list" => net'[s].as = net[s].as /\ net'[s].ids = Expected
         /\ net[s].call = "read" => net'[s].as = rows[net[s].id] /\ net'[s].as \in Exist
  <1> USE DEF PageInv
  <1>1. net \in [Slots -> Requests] /\ net[s].call \in {"list", "read"}
    BY DEF TypeOK, Requests, ServeRead
  <1>2. net[s] \in Request
    BY <1>1 DEF Requests, NoRequest
  <1>3. Expected \subseteq Ids
    BY DEF Expected
  <1>4. \A t \in Slots \ {s} : net'[t] = net[t]
    BY <1>1 DEF ServeRead
  <1>5. CASE net[s].call = "list"
    <2>1. net' = [net EXCEPT ![s] = [net[s] EXCEPT !.at = "served", !.as = net[s].as, !.ids = Expected]]
      BY <1>1, <1>5, ListedIsExpected DEF ServeRead
    <2>2. /\ net'[s] \in Requests /\ net'[s].call = net[s].call /\ net'[s].id = net[s].id
          /\ net'[s].mine = net[s].mine /\ net'[s].latest = net[s].latest
          /\ net'[s].permanent = net[s].permanent /\ net'[s].as = net[s].as /\ net'[s].ids = Expected
      BY <1>1, <1>2, <1>3, <2>1 DEF Requests, Request
    <2>3. QED
      BY <1>1, <1>4, <1>5, <2>1, <2>2
  <1>6. CASE net[s].call = "read"
    <2>1. /\ net' = [net EXCEPT ![s] = [net[s] EXCEPT !.at = "served", !.as = rows[net[s].id], !.ids = {}]]
          /\ rows[net[s].id] \in Exist
      BY <1>1, <1>6 DEF ServeRead
    <2>2. /\ net'[s] \in Requests /\ net'[s].call = net[s].call /\ net'[s].id = net[s].id
          /\ net'[s].mine = net[s].mine /\ net'[s].latest = net[s].latest
          /\ net'[s].permanent = net[s].permanent /\ net'[s].as = rows[net[s].id]
      BY <1>1, <1>2, <2>1 DEF Requests, Request
    <2>3. QED
      BY <1>1, <1>4, <1>6, <2>1, <2>2
  <1>7. QED
    BY <1>1, <1>5, <1>6

(* A list or a row is read at the server.                                  *)
LEMMA ServeReadKeeps == ASSUME PageInv, NEW s \in Slots, ServeRead(s) PROVE PageInv'
  <1> USE DEF PageInv
  <1>1. UNCHANGED <<kind, load, rows, view, shown, heard, box, names, form, acts, failed, muddled>>
    BY DEF ServeRead
  <1>2. /\ net' \in [Slots -> Requests] /\ \A t \in Slots \ {s} : net'[t] = net[t]
        /\ net[s].call \in {"list", "read"}
        /\ net'[s].call = net[s].call /\ net'[s].id = net[s].id /\ net'[s].mine = net[s].mine
        /\ net'[s].latest = net[s].latest /\ net'[s].permanent = net[s].permanent
        /\ net[s].call = "list" => net'[s].as = net[s].as /\ net'[s].ids = Expected
        /\ net[s].call = "read" => net'[s].as = rows[net[s].id] /\ net'[s].as \in Exist
    BY ReadServed
  <1>3. TypeOK'
    BY <1>1, <1>2 DEF TypeOK, Requests, HasTrash
  <1>4. OneHears' /\ BoxIsOfAsker'
    BY <1>1 DEF OneHears, BoxIsOfAsker, Ask
  <1>5. SavesUnderWay' = SavesUnderWay
    BY <1>2 DEF SavesUnderWay
  <1>6. StuckIsBusy' /\ DialogRecovers'
    BY <1>1, <1>5 DEF StuckIsBusy, DialogRecovers
  <1>7. FilledAsOpened' /\ ReadsAreOfRows' /\ SwitchesKeep'
    BY <1>1, <1>2 DEF FilledAsOpened, ReadsAreOfRows, SwitchesKeep
  <1>8. NoneTrashed'
    BY <1>1, <1>2 DEF NoneTrashed, HoldsAll, ReadsAreOfRows
  <1>9. Expected' = Expected
    BY <1>1 DEF Expected
  <1>10. LatestIsTrue'
    BY <1>1, <1>2, <1>9 DEF LatestIsTrue, Answers
  <1>11. TrueOrAwaited'
    <2>1. \A t \in Slots : Awaited(net[t]) => Awaited(net[t])'
      BY <1>1, <1>2 DEF Awaited
    <2>2. QED
      BY <1>1, <1>9, <2>1 DEF TrueOrAwaited
  <1>12. QED
    BY <1>3, <1>4, <1>6, <1>7, <1>8, <1>10, <1>11

(* A request fails at the server.                                          *)
LEMMA RefuseKeeps == ASSUME PageInv, NEW s \in Slots, Refuse(s) PROVE PageInv'
  <1> USE DEF PageInv
  <1>1. UNCHANGED <<kind, load, rows, view, shown, heard, box, names, form, acts, failed, muddled>>
    BY DEF Refuse
  <1>2. net \in [Slots -> Requests] /\ net[s].call # "none"
    BY DEF TypeOK, Requests, Refuse
  <1>3. net[s] \in Request
    BY <1>2 DEF Requests, NoRequest
  <1>4. /\ net' \in [Slots -> Requests] /\ \A t \in Slots \ {s} : net'[t] = net[t]
        /\ net'[s].call = net[s].call /\ net'[s].id = net[s].id /\ net'[s].mine = net[s].mine
        /\ net'[s].latest = net[s].latest /\ net'[s].permanent = net[s].permanent
        /\ net'[s].as = net[s].as /\ net'[s].at = "failed"
    BY <1>2, <1>3 DEF Refuse, Requests, Request
  <1>5. TypeOK'
    BY <1>1, <1>4 DEF TypeOK, Requests, HasTrash
  <1>6. OneHears' /\ BoxIsOfAsker'
    BY <1>1 DEF OneHears, BoxIsOfAsker, Ask
  <1>7. SavesUnderWay' = SavesUnderWay
    BY <1>4 DEF SavesUnderWay
  <1>8. StuckIsBusy' /\ DialogRecovers'
    BY <1>1, <1>7 DEF StuckIsBusy, DialogRecovers
  <1>9. FilledAsOpened' /\ ReadsAreOfRows' /\ SwitchesKeep'
    BY <1>1, <1>4 DEF FilledAsOpened, ReadsAreOfRows, SwitchesKeep
  <1>10. NoneTrashed'
    BY <1>1, <1>4 DEF NoneTrashed, HoldsAll
  <1>11. Expected' = Expected
    BY <1>1 DEF Expected
  <1>12. LatestIsTrue'
    BY <1>1, <1>4, <1>11 DEF LatestIsTrue, Answers
  <1>13. TrueOrAwaited'
    <2>1. \A t \in Slots : Awaited(net[t]) => Awaited(net[t])'
      BY <1>1, <1>4 DEF Awaited
    <2>2. QED
      BY <1>1, <1>11, <2>1 DEF TrueOrAwaited
  <1>14. QED
    BY <1>5, <1>6, <1>8, <1>9, <1>10, <1>12, <1>13

(***************************************************************************)
(* The answers.                                                            *)
(***************************************************************************)
(* A request that is answered is forgotten.                                *)
LEMMA FreeSlots ==
  ASSUME net \in [Slots -> Requests], NEW s \in Slots
  PROVE  /\ Free(s) \in [Slots -> Requests]
         /\ \A t \in Slots \ {s} : Free(s)[t] = net[t]
         /\ Free(s)[s].call = "none" /\ Free(s)[s].mine = FALSE /\ Free(s)[s].as = "live"
  BY DEF Free, Requests, NoRequest

(* What an answer leaves to be shown, when it asks for no list: the page   *)
(* did not wait for it, or shows what it holds, or an error.               *)
LEMMA AnswerSteps ==
  ASSUME PageInv, NEW s \in Slots, net' = Free(s),
         UNCHANGED <<kind, load, rows, view, heard, box, names, acts>>,
         failed' \in BOOLEAN, muddled' \in BOOLEAN, shown' \subseteq Ids,
         form' \in Form, HoldsAll => form'.as # "trashed",
         ~failed' /\ ~muddled' =>
           shown' = Expected \/ (UNCHANGED <<shown, failed, muddled>> /\ ~Awaited(net[s]))
  PROVE  /\ TypeOK' /\ OneHears' /\ BoxIsOfAsker' /\ ReadsAreOfRows' /\ NoneTrashed' /\ SwitchesKeep'
         /\ LatestIsTrue' /\ TrueOrAwaited'
         /\ SavesUnderWay' = SavesUnderWay \ {s}
         /\ \A t \in Slots \ {s} : net'[t] = net[t]
         /\ net'[s].call = "none"
  <1> USE DEF PageInv
  <1>1. net \in [Slots -> Requests]
    BY DEF TypeOK, Requests
  <1>2. /\ net' \in [Slots -> Requests]
        /\ \A t \in Slots \ {s} : net'[t] = net[t]
        /\ net'[s].call = "none" /\ net'[s].mine = FALSE /\ net'[s].as = "live"
    BY <1>1, FreeSlots
  <1>3. TypeOK'
    BY <1>2 DEF TypeOK, Requests, HasTrash
  <1>4. OneHears' /\ BoxIsOfAsker'
    BY DEF OneHears, BoxIsOfAsker, Ask
  <1>5. ReadsAreOfRows' /\ NoneTrashed' /\ SwitchesKeep'
    BY <1>2 DEF ReadsAreOfRows, NoneTrashed, HoldsAll, SwitchesKeep
  <1>6. Expected' = Expected
    BY DEF Expected
  <1>7. LatestIsTrue'
    BY <1>2, <1>6 DEF LatestIsTrue, Answers
  <1>8. TrueOrAwaited'
    <2>1. \A t \in Slots \ {s} : Awaited(net[t]) => Awaited(net[t])'
      BY <1>2 DEF Awaited
    <2>2. QED
      BY <1>6, <2>1 DEF TrueOrAwaited
  <1>9. SavesUnderWay' = SavesUnderWay \ {s}
    BY <1>2 DEF SavesUnderWay, Saves
  <1>10. QED
    BY <1>2, <1>3, <1>4, <1>5, <1>7, <1>8, <1>9

(* The page did not wait for what it does not see.                         *)
LEMMA IgnoredKeeps == ASSUME PageInv, NEW s \in Slots, Ignored(s) PROVE PageInv'
  <1> USE DEF PageInv
  <1>1. /\ net' = Free(s) /\ ~net[s].mine
        /\ UNCHANGED <<kind, load, rows, view, shown, heard, box, names, form, acts, failed, muddled>>
    BY DEF Ignored
  <1>2. ~Awaited(net[s]) /\ s \notin SavesUnderWay
    BY <1>1 DEF Awaited, SavesUnderWay
  <1>3. /\ TypeOK' /\ OneHears' /\ BoxIsOfAsker' /\ ReadsAreOfRows' /\ NoneTrashed' /\ SwitchesKeep'
        /\ LatestIsTrue' /\ TrueOrAwaited'
        /\ SavesUnderWay' = SavesUnderWay \ {s}
        /\ \A t \in Slots \ {s} : net'[t] = net[t]
        /\ net'[s].call = "none"
    BY <1>1, <1>2, AnswerSteps DEF TypeOK, NoneTrashed
  <1>4. StuckIsBusy' /\ DialogRecovers' /\ FilledAsOpened'
    BY <1>1, <1>2, <1>3 DEF StuckIsBusy, DialogRecovers, FilledAsOpened
  <1>5. QED
    BY <1>3, <1>4

(* The last list shows what the table holds.                               *)
LEMMA ListAnsweredKeeps == ASSUME PageInv, NEW s \in Slots, ListAnswered(s) PROVE PageInv'
  <1> USE DEF PageInv
  <1>1. /\ net' = Free(s) /\ Answers(s, "list") /\ net[s].call = "list"
        /\ UNCHANGED <<kind, load, rows, view, heard, box, names, form, acts, failed>>
        /\ shown' = net[s].ids /\ muddled' = ~net[s].latest
    BY DEF ListAnswered, Answers
  <1>2. shown' \subseteq Ids
    BY <1>1, RequestFields DEF TypeOK, Requests
  <1>3. ~muddled' => shown' = Expected
    BY <1>1 DEF LatestIsTrue
  <1>4. muddled' \in BOOLEAN /\ s \notin SavesUnderWay
    BY <1>1 DEF SavesUnderWay, Saves
  <1>5. /\ TypeOK' /\ OneHears' /\ BoxIsOfAsker' /\ ReadsAreOfRows' /\ NoneTrashed' /\ SwitchesKeep'
        /\ LatestIsTrue' /\ TrueOrAwaited'
        /\ SavesUnderWay' = SavesUnderWay \ {s}
        /\ \A t \in Slots \ {s} : net'[t] = net[t]
        /\ net'[s].call = "none"
    BY <1>1, <1>2, <1>3, <1>4, AnswerSteps DEF TypeOK, NoneTrashed
  <1>6. StuckIsBusy' /\ DialogRecovers' /\ FilledAsOpened'
    BY <1>1, <1>4, <1>5 DEF StuckIsBusy, DialogRecovers, FilledAsOpened
  <1>7. QED
    BY <1>5, <1>6

(* The last read fills the dialog with the row that it was opened for.     *)
LEMMA ReadAnsweredKeeps == ASSUME PageInv, NEW s \in Slots, ReadAnswered(s) PROVE PageInv'
  <1> USE DEF PageInv
  <1>1. /\ net' = Free(s) /\ net[s].call = "read" /\ net[s].mine
        /\ UNCHANGED <<kind, load, rows, view, shown, heard, box, names, acts, failed, muddled>>
    BY DEF ReadAnswered, Answers
  <1>2. net[s].id \in Ids /\ net[s].as \in Exist
    BY <1>1 DEF ReadsAreOfRows
  <1>3. /\ form' \in Form /\ form'.id = net[s].id /\ form'.as = net[s].as
        /\ form'.by = IF net[s].latest THEN "this" ELSE "earlier"
        /\ form'.wanted = form.wanted /\ form'.edit = form.edit /\ form'.busy = form.busy
        /\ form'.stuck = form.stuck
    BY <1>2 DEF ReadAnswered, TypeOK, Form
  <1>4. ~Awaited(net[s]) /\ s \notin SavesUnderWay /\ (HoldsAll => form'.as # "trashed")
    BY <1>1, <1>3 DEF Awaited, SavesUnderWay, Saves, NoneTrashed
  <1>5. /\ TypeOK' /\ OneHears' /\ BoxIsOfAsker' /\ ReadsAreOfRows' /\ NoneTrashed' /\ SwitchesKeep'
        /\ LatestIsTrue' /\ TrueOrAwaited'
        /\ SavesUnderWay' = SavesUnderWay \ {s}
        /\ \A t \in Slots \ {s} : net'[t] = net[t]
        /\ net'[s].call = "none"
    BY <1>1, <1>3, <1>4, AnswerSteps DEF TypeOK
  <1>6. StuckIsBusy' /\ DialogRecovers'
    BY <1>3, <1>4, <1>5 DEF StuckIsBusy, DialogRecovers
  <1>7. FilledAsOpened'
    BY <1>1, <1>3, <1>5 DEF FilledAsOpened
  <1>8. QED
    BY <1>5, <1>6, <1>7

(* The dialog is released when its save has failed.                        *)
LEMMA FailedKeeps == ASSUME PageInv, NEW s \in Slots, Failed(s) PROVE PageInv'
  <1> USE DEF PageInv
  <1>1. /\ net' = Free(s) /\ net[s].mine /\ failed' = TRUE
        /\ UNCHANGED <<kind, load, rows, view, shown, heard, box, names, acts, muddled>>
    BY DEF Failed
  <1>2. /\ form' \in Form /\ form'.id = form.id /\ form'.as = form.as
        /\ form'.by = form.by /\ form'.wanted = form.wanted /\ form'.edit = form.edit
        /\ form'.stuck = form.stuck
        /\ net[s].call \in Saves => form'.busy = FALSE
        /\ net[s].call \notin Saves => form'.busy = form.busy
    BY DEF Failed, TypeOK, Form
  <1>3. /\ TypeOK' /\ OneHears' /\ BoxIsOfAsker' /\ ReadsAreOfRows' /\ NoneTrashed' /\ SwitchesKeep'
        /\ LatestIsTrue' /\ TrueOrAwaited'
        /\ SavesUnderWay' = SavesUnderWay \ {s}
        /\ \A t \in Slots \ {s} : net'[t] = net[t]
        /\ net'[s].call = "none"
    BY <1>1, <1>2, AnswerSteps DEF TypeOK, NoneTrashed
  <1>4. StuckIsBusy' /\ DialogRecovers'
    <2>1. CASE net[s].call \in Saves
      <3>1. s \in SavesUnderWay
        BY <1>1, <2>1 DEF SavesUnderWay
      <3>2. SavesUnderWay = {s} /\ ~form.stuck
        BY <3>1 DEF StuckIsBusy, DialogRecovers
      <3>3. QED
        BY <1>2, <1>3, <2>1, <3>2 DEF StuckIsBusy, DialogRecovers
    <2>2. CASE net[s].call \notin Saves
      <3>1. s \notin SavesUnderWay
        BY <2>2 DEF SavesUnderWay
      <3>2. SavesUnderWay' = SavesUnderWay
        BY <1>3, <3>1
      <3>3. QED
        BY <1>2, <2>2, <3>2 DEF StuckIsBusy, DialogRecovers
    <2>3. QED
      BY <2>1, <2>2
  <1>5. FilledAsOpened'
    BY <1>2, <1>3 DEF FilledAsOpened
  <1>6. QED
    BY <1>3, <1>4, <1>5

(* An answer after which the page asks for its list, in the slot that it   *)
(* has freed or in another one.                                            *)
LEMMA RetrieveSteps ==
  ASSUME PageInv, NEW s \in Slots, net' \in Sent(Free(s), {List}),
         UNCHANGED <<kind, load, rows, view, shown, heard, box, names, acts, failed, muddled>>,
         form' \in Form, form'.as = form.as
  PROVE  /\ TypeOK' /\ OneHears' /\ BoxIsOfAsker' /\ ReadsAreOfRows' /\ NoneTrashed' /\ SwitchesKeep'
         /\ LatestIsTrue' /\ TrueOrAwaited'
         /\ SavesUnderWay' = SavesUnderWay \ {s}
         /\ \A t \in Slots : \/ net'[t].call \in {"list", "none"}
                             \/ Alike(net'[t], net[t]) /\ (net'[t].latest => net[t].latest)
  <1> USE DEF PageInv
  <1>1. net \in [Slots -> Requests]
    BY DEF TypeOK, Requests
  <1>2. PICK r \in Slots : Free(s)[r].call = "none" /\ net' = Added(Free(s), r, List)
    BY SentOne
  <1>3. /\ Free(s) \in [Slots -> Requests] /\ List \in Requests
        /\ \A t \in Slots \ {s} : Free(s)[t] = net[t]
        /\ Free(s)[s].call = "none" /\ Free(s)[s].mine = FALSE /\ Free(s)[s].as = "live"
    BY <1>1, FreeSlots, ListIsAwaited
  <1>4. /\ net' \in [Slots -> Requests] /\ net'[r] = List
        /\ \A t \in Slots \ {r} : Alike(net'[t], Free(s)[t]) /\ (net'[t].latest => Free(s)[t].latest)
    BY <1>2, <1>3, AddedSlots
  <1>5. /\ net'[r].call = "list" /\ net'[r].mine = TRUE /\ net'[r].at = "sent" /\ net'[r].as = "live"
        /\ s # r => net'[s].call = "none" /\ net'[s].mine = FALSE /\ net'[s].as = "live"
        /\ \A t \in Slots \ {r, s} : Alike(net'[t], net[t]) /\ (net'[t].latest => net[t].latest)
        /\ r # s => net[r].call = "none"
    BY <1>2, <1>3, <1>4, ListIsAwaited DEF Alike
  <1>6. TypeOK'
    BY <1>4 DEF TypeOK, Requests, HasTrash
  <1>7. OneHears' /\ BoxIsOfAsker'
    BY DEF OneHears, BoxIsOfAsker, Ask
  <1>8. ReadsAreOfRows' /\ NoneTrashed' /\ SwitchesKeep'
    BY <1>5 DEF ReadsAreOfRows, NoneTrashed, HoldsAll, SwitchesKeep, Alike
  <1>9. LatestIsTrue'
    BY <1>5 DEF LatestIsTrue, Answers, Expected, Alike
  <1>10. TrueOrAwaited'
    BY <1>5 DEF TrueOrAwaited, Awaited
  <1>11. SavesUnderWay' = SavesUnderWay \ {s}
    BY <1>5 DEF SavesUnderWay, Saves, Alike
  <1>12. QED
    BY <1>5, <1>6, <1>7, <1>8, <1>9, <1>10, <1>11

(* The dialog is released when its save has come back; the list follows.   *)
LEMMA SaveAnsweredKeeps == ASSUME PageInv, NEW s \in Slots, SaveAnswered(s) PROVE PageInv'
  <1> USE DEF PageInv
  <1>1. /\ net' \in Sent(Free(s), {List}) /\ s \in SavesUnderWay
        /\ UNCHANGED <<kind, load, rows, view, shown, heard, box, names, acts, failed, muddled>>
    BY DEF SaveAnswered, Answers, SavesUnderWay
  <1>2. /\ form' \in Form /\ form'.id = form.id /\ form'.as = form.as
        /\ form'.by = form.by /\ form'.wanted = form.wanted /\ form'.edit = form.edit
        /\ form'.stuck = form.stuck /\ form'.busy = FALSE
    BY DEF SaveAnswered, TypeOK, Form
  <1>3. /\ TypeOK' /\ OneHears' /\ BoxIsOfAsker' /\ ReadsAreOfRows' /\ NoneTrashed' /\ SwitchesKeep'
        /\ LatestIsTrue' /\ TrueOrAwaited'
        /\ SavesUnderWay' = SavesUnderWay \ {s}
        /\ \A t \in Slots : \/ net'[t].call \in {"list", "none"}
                            \/ Alike(net'[t], net[t]) /\ (net'[t].latest => net[t].latest)
    BY <1>1, <1>2, RetrieveSteps
  <1>4. SavesUnderWay = {s} /\ ~form.stuck
    BY <1>1 DEF StuckIsBusy, DialogRecovers
  <1>5. StuckIsBusy' /\ DialogRecovers'
    BY <1>2, <1>3, <1>4 DEF StuckIsBusy, DialogRecovers
  <1>6. FilledAsOpened'
    BY <1>2, <1>3 DEF FilledAsOpened, Alike
  <1>7. QED
    BY <1>3, <1>5, <1>6

(* The list follows a change, but for a switch that leaves deleted alone.  *)
LEMMA ChangeAnsweredKeeps == ASSUME PageInv, NEW s \in Slots, ChangeAnswered(s) PROVE PageInv'
  <1> USE DEF PageInv
  <1> DEFINE silent == net[s].call = "rewrite" /\ view = "list" /\ RowsOf[kind].flips = "silent"
  <1>1. /\ UNCHANGED <<kind, load, rows, view, shown, heard, box, names, form, acts, failed, muddled>>
        /\ s \notin SavesUnderWay
        /\ net' \in Sent(Free(s), IF silent THEN {} ELSE {List})
    BY DEF ChangeAnswered, Answers, SavesUnderWay, Saves
  <1>2. CASE silent
    <2>1. Free(s) \in [Slots -> Requests]
      BY FreeSlots DEF TypeOK, Requests
    <2>2. net' = Free(s)
      BY <1>1, <1>2, <2>1, SentNone
    <2>3. ~Awaited(net[s])
      BY <1>2 DEF Awaited, Saves
    <2>4. /\ TypeOK' /\ OneHears' /\ BoxIsOfAsker' /\ ReadsAreOfRows' /\ NoneTrashed' /\ SwitchesKeep'
          /\ LatestIsTrue' /\ TrueOrAwaited'
          /\ SavesUnderWay' = SavesUnderWay \ {s}
          /\ \A t \in Slots \ {s} : net'[t] = net[t]
          /\ net'[s].call = "none"
      BY <1>1, <2>2, <2>3, AnswerSteps DEF TypeOK, NoneTrashed
    <2>5. StuckIsBusy' /\ DialogRecovers' /\ FilledAsOpened'
      BY <1>1, <2>4 DEF StuckIsBusy, DialogRecovers, FilledAsOpened
    <2>6. QED
      BY <2>4, <2>5
  <1>3. CASE ~silent
    <2>1. net' \in Sent(Free(s), {List})
      BY <1>1, <1>3
    <2>2. /\ TypeOK' /\ OneHears' /\ BoxIsOfAsker' /\ ReadsAreOfRows' /\ NoneTrashed' /\ SwitchesKeep'
          /\ LatestIsTrue' /\ TrueOrAwaited'
          /\ SavesUnderWay' = SavesUnderWay \ {s}
          /\ \A t \in Slots : \/ net'[t].call \in {"list", "none"}
                              \/ Alike(net'[t], net[t]) /\ (net'[t].latest => net[t].latest)
      BY <1>1, <2>1, RetrieveSteps DEF TypeOK
    <2>3. StuckIsBusy' /\ DialogRecovers'
      BY <1>1, <2>2 DEF StuckIsBusy, DialogRecovers
    <2>4. FilledAsOpened'
      BY <1>1, <2>2 DEF FilledAsOpened, Alike
    <2>5. QED
      BY <2>2, <2>3, <2>4
  <1>4. QED
    BY <1>2, <1>3

(***************************************************************************)
(* The theorems.                                                           *)
(***************************************************************************)
LEMMA InitPageInv == Init => PageInv
  <1> SUFFICES ASSUME Init
               PROVE  PageInv
    OBVIOUS
  <1> DEFINE none == [s \in Slots |-> NoRequest]
  <1>1. PICK s \in Slots : net = Added(none, s, List)
    BY SentOne DEF Init
  <1>2. /\ none \in [Slots -> Requests] /\ List \in Requests
        /\ \A t \in Slots : none[t] = NoRequest
    BY ListIsAwaited DEF Requests
  <1> HIDE DEF none
  <1>3. /\ net \in [Slots -> Requests] /\ net[s] = List
        /\ \A t \in Slots \ {s} : net[t].call = "none" /\ net[t].as = "live" /\ ~net[t].mine
    <2>1. /\ net \in [Slots -> Requests] /\ net[s] = List
          /\ \A t \in Slots \ {s} : Alike(net[t], none[t])
      BY <1>1, <1>2, AddedSlots
    <2>2. QED
      BY <1>2, <2>1 DEF Alike, NoRequest
  <1>4. PICK c \in Cases : kind = c[1] /\ load = c[2]
    BY DEF Init
  <1>5. <<kind, load>> \in Cases /\ kind \in AdminKinds
    BY <1>4, AdminAssumption
  <1>6. NewForm \in Form
    BY DEF NewForm, Form, Exist
  <1>7. rows \in [Ids -> RowStates] /\ acts \in 0..MaxActs
    BY AdminAssumption DEF Init, RowStates
  <1>8. TypeOK
    BY <1>3, <1>5, <1>6, <1>7 DEF Init, TypeOK, Requests, Views
  <1>9. OneHears /\ BoxIsOfAsker
    BY DEF Init, OneHears, BoxIsOfAsker
  <1>10. SavesUnderWay = {}
    BY <1>3, ListIsAwaited DEF SavesUnderWay, Saves
  <1>11. StuckIsBusy /\ DialogRecovers
    BY <1>10 DEF Init, NewForm, StuckIsBusy, DialogRecovers
  <1>12. FilledAsOpened /\ ReadsAreOfRows /\ SwitchesKeep
    BY <1>3, ListIsAwaited DEF Init, NewForm, FilledAsOpened, ReadsAreOfRows, SwitchesKeep
  <1>13. NoneTrashed
    <2>1. HoldsAll => Permanent("list")
      BY <1>5, ClientsList DEF HoldsAll, Permanent
    <2>2. HoldsAll => \A i \in Ids : rows[i] # "trashed"
      BY <2>1 DEF Init
    <2>3. QED
      BY <1>3, <2>2, ListIsAwaited DEF Init, NewForm, NoneTrashed
  <1>14. LatestIsTrue /\ TrueOrAwaited
    BY <1>3, ListIsAwaited DEF LatestIsTrue, Answers, TrueOrAwaited, Awaited
  <1>15. QED
    BY <1>8, <1>9, <1>11, <1>12, <1>13, <1>14 DEF PageInv

(* Nothing happens.                                                        *)
LEMMA StutterKeeps == PageInv /\ UNCHANGED vars => PageInv'
  <1> SUFFICES ASSUME PageInv, UNCHANGED vars
               PROVE  PageInv'
    OBVIOUS
  <1> USE DEF PageInv, vars
  <1>1. TypeOK' /\ BoxIsOfAsker'
    BY DEF TypeOK, HasTrash, BoxIsOfAsker, Ask
  <1>2. /\ SavesUnderWay' = SavesUnderWay
        /\ OneHears' /\ ReadsAreOfRows' /\ SwitchesKeep' /\ LatestIsTrue' /\ TrueOrAwaited'
        /\ NoneTrashed'
    BY <1>1, DialogSteps DEF Alike
  <1>3. StuckIsBusy' /\ DialogRecovers' /\ FilledAsOpened'
    BY <1>2 DEF StuckIsBusy, DialogRecovers, FilledAsOpened
  <1>4. QED
    BY <1>1, <1>2, <1>3

(* Every reachable state of the pages satisfies the inductive invariant.   *)
LEMMA PageInvariant == Spec => []PageInv
  <1>1. PageInv /\ [Next]_vars => PageInv'
    <2> SUFFICES ASSUME PageInv, [Next]_vars
                 PROVE  PageInv'
      OBVIOUS
    <2>1. CASE Refresh \/ OpenNew \/ Close \/ Submit \/ SubmitInvalid \/ SubmitNameless
      BY <2>1, RefreshKeeps, OpenNewKeeps, CloseKeeps, SubmitKeeps, StuckKeeps
    <2>2. CASE Confirm \/ Decline \/ NamesAnswered
      BY <2>2, ConfirmKeeps, NamesAnsweredKeeps
    <2>3. ASSUME NEW i \in Ids, OpenEdit(i) \/ AskDelete(i) \/ Rewrite(i)
          PROVE  PageInv'
      BY <2>3, OpenEditKeeps, AskDeleteKeeps, RewriteKeeps
    <2>4. ASSUME NEW v \in Views, Enter(v)
          PROVE  PageInv'
      BY <2>4, EnterKeeps
    <2>5. ASSUME NEW s \in Slots,
                 ServeChange(s) \/ ServeRead(s) \/ Refuse(s) \/ Ignored(s) \/ ListAnswered(s)
          PROVE  PageInv'
      BY <2>5, ServeChangeKeeps, ServeReadKeeps, RefuseKeeps, IgnoredKeeps, ListAnsweredKeeps
    <2>6. ASSUME NEW s \in Slots,
                 ReadAnswered(s) \/ SaveAnswered(s) \/ ChangeAnswered(s) \/ Failed(s)
          PROVE  PageInv'
      BY <2>6, ReadAnsweredKeeps, SaveAnsweredKeeps, ChangeAnsweredKeeps, FailedKeeps
    <2>7. CASE UNCHANGED vars
      BY <2>7, StutterKeeps
    <2>8. QED
      BY <2>1, <2>2, <2>3, <2>4, <2>5, <2>6, <2>7 DEF Next
  <1>2. QED
    BY <1>1, InitPageInv, PTL DEF Spec

(* Every variable of the pages has its type.                               *)
THEOREM PageTyped == Spec => []TypeOK
  BY PageInvariant, PTL DEF PageInv

(* The dialog is never stuck: isSubmitOnGoing is set while exactly one     *)
(* save is under way, unless onSubmit has thrown or returned with it set.  *)
THEOREM PageRecovers == Spec => []DialogRecovers
  BY PageInvariant, PTL DEF PageInv

(* When every answer has come and none was an error, the page lists what   *)
(* the table holds for it, unless an overtaken list came last.             *)
THEOREM PageListIsTrue == Spec => []ListIsTrue
  <1>1. PageInv => ListIsTrue
    <2> SUFFICES ASSUME PageInv, Quiet, ~failed, ~muddled
                 PROVE  shown = Expected
      BY DEF ListIsTrue
    <2>1. \A s \in Slots : ~Awaited(net[s])
      BY DEF Quiet, Awaited, Saves
    <2>2. QED
      BY <2>1 DEF PageInv, TrueOrAwaited
  <1>2. QED
    BY <1>1, PageInvariant, PTL

(***************************************************************************)
(* What a step may never do.                                               *)
(***************************************************************************)
(* Where one request is made, the others do what they did.                 *)
LEMMA SentCalls ==
  ASSUME NEW n \in [Slots -> Requests], NEW q \in Requests, NEW m \in Sent(n, {q}), NEW t \in Slots
  PROVE  m[t].call = n[t].call \/ m[t].call = q.call
  <1>1. PICK s \in Slots : m = Added(n, s, q)
    BY SentOne
  <1>2. m[t] = q \/ Alike(m[t], n[t])
    BY <1>1, AddedSlots
  <1>3. QED
    BY <1>2 DEF Alike

(* Only onSubmit saves.                                                    *)
LEMMA OnlySubmitSaves ==
  ASSUME PageInv, [Next]_vars, ~Submit, NEW t \in Slots, net'[t].call \in Saves
  PROVE  net[t].call \in Saves
  <1>1. net \in [Slots -> Requests]
    BY DEF PageInv, TypeOK, Requests
  <1>2. List \in Requests /\ List.call \notin Saves
    BY ListIsAwaited DEF Saves
  <1>3. CASE Refresh
    BY <1>1, <1>2, <1>3, SentCalls DEF Refresh
  <1>4. CASE OpenNew
    <2>1. net[t].call = "read" => net'[t].call = "read"
      <3>1. net[t].call = "read" => net[t] \in Request
        BY <1>1 DEF Requests, NoRequest
      <3>2. QED
        BY <1>4, <3>1 DEF OpenNew, Request
    <2>2. QED
      BY <1>4, <2>1 DEF OpenNew
  <1>5. CASE Close \/ SubmitInvalid \/ SubmitNameless \/ Decline \/ NamesAnswered \/ UNCHANGED vars
    BY <1>5 DEF Close, SubmitInvalid, SubmitNameless, Decline, NamesAnswered, vars
  <1>6. CASE Confirm
    <2>1. CASE ~Heard
      BY <1>6, <2>1, ConfirmSends
    <2>2. CASE Heard
      <3>1. PICK s \in Slots, q \in Request :
              net[s].call = "none" /\ net' = Added(net, s, q) /\ q.call = "delete"
        BY <1>6, <2>2, ConfirmSends
      <3>2. net'[t] = q \/ Alike(net'[t], net[t])
        BY <1>1, <3>1, AddedSlots DEF Requests
      <3>3. QED
        BY <3>1, <3>2 DEF Alike, Saves
    <2>3. QED
      BY <2>1, <2>2
  <1>7. ASSUME NEW i \in Ids, OpenEdit(i)
        PROVE  net[t].call \in Saves
    <2>1. Of("read", i) \in Requests /\ Of("read", i).call \notin Saves
      BY DEF Of, Requests, Request, Saves, Exist
    <2>2. net' \in Sent(net, {Of("read", i)})
      BY <1>7 DEF OpenEdit
    <2>3. QED
      BY <1>1, <2>1, <2>2, SentCalls
  <1>8. ASSUME NEW i \in Ids, AskDelete(i)
        PROVE  net[t].call \in Saves
    BY <1>8 DEF AskDelete
  <1>9. ASSUME NEW i \in Ids, Rewrite(i)
        PROVE  net[t].call \in Saves
    <2> DEFINE q == [Of("rewrite", i) EXCEPT !.as = IF view = "list" THEN "kept" ELSE "live"]
    <2>1. q \in Requests /\ q.call \notin Saves
      BY DEF Of, Requests, Request, Saves, Exist
    <2>2. net' \in Sent(net, {q})
      BY <1>9 DEF Rewrite
    <2> HIDE DEF q
    <2>3. QED
      BY <1>1, <2>1, <2>2, SentCalls
  <1>10. ASSUME NEW v \in Views, Enter(v)
         PROVE  net[t].call \in Saves
    <2>1. Left \in [Slots -> Requests] /\ Left[t].call = net[t].call
      BY <1>1, LeftSlots
    <2>2. net' \in Sent(Left, {List})
      BY <1>10 DEF Enter
    <2>3. QED
      BY <1>2, <2>1, <2>2, SentCalls
  <1>11. ASSUME NEW s \in Slots, ServeChange(s)
         PROVE  net[t].call \in Saves
    BY <1>11, ChangeServed DEF Alike
  <1>12. ASSUME NEW s \in Slots, ServeRead(s)
         PROVE  net[t].call \in Saves
    BY <1>12, ReadServed DEF Saves
  <1>13. ASSUME NEW s \in Slots, Refuse(s)
         PROVE  net[t].call \in Saves
    <2>1. net[s] \in Request
      BY <1>1, <1>13 DEF Refuse, Requests, NoRequest
    <2>2. net'[s].call = net[s].call
      BY <1>1, <1>13, <2>1 DEF Refuse, Request
    <2>3. QED
      BY <1>1, <1>13, <2>2 DEF Refuse
  <1>14. ASSUME NEW s \in Slots,
                Ignored(s) \/ ListAnswered(s) \/ ReadAnswered(s) \/ Failed(s)
         PROVE  net[t].call \in Saves
    <2>1. net' = Free(s)
      BY <1>14 DEF Ignored, ListAnswered, ReadAnswered, Failed
    <2>2. QED
      BY <1>1, <2>1, FreeSlots DEF Saves
  <1>15. ASSUME NEW s \in Slots, SaveAnswered(s) \/ ChangeAnswered(s)
         PROVE  net[t].call \in Saves
    <2>1. Free(s) \in [Slots -> Requests] /\ (Free(s)[t].call \in Saves => net[t].call \in Saves)
      BY <1>1, FreeSlots DEF Saves
    <2>2. net' \in Sent(Free(s), {List}) \/ net' \in Sent(Free(s), {})
      BY <1>15 DEF SaveAnswered, ChangeAnswered
    <2>3. CASE net' \in Sent(Free(s), {})
      BY <2>1, <2>3, SentNone
    <2>4. CASE net' \in Sent(Free(s), {List})
      BY <1>2, <2>1, <2>4, SentCalls
    <2>5. QED
      BY <2>2, <2>3, <2>4
  <1>16. QED
    BY <1>3, <1>4, <1>5, <1>6, <1>7, <1>8, <1>9, <1>10, <1>11, <1>12, <1>13, <1>14, <1>15 DEF Next

(* A dialog that was filled by its own opening updates the row that it was *)
(* opened for, or creates one.                                             *)
THEOREM PageSaves == Spec => SavesWhatWasOpened
  <1> DEFINE Right == \A s \in Slots :
               net'[s].call \in Saves /\ net[s].call \notin Saves /\ form.by = "this" =>
                 /\ net'[s].id = form.wanted
                 /\ net'[s].call = "create" <=> form.wanted = 0
  <1>1. PageInv /\ [Next]_vars => Right
    <2> SUFFICES ASSUME PageInv, [Next]_vars, NEW t \in Slots,
                        net'[t].call \in Saves, net[t].call \notin Saves, form.by = "this"
                 PROVE  /\ net'[t].id = form.wanted
                        /\ net'[t].call = "create" <=> form.wanted = 0
      OBVIOUS
    <2>1. Submit
      BY OnlySubmitSaves
    <2>2. PICK s \in Slots, q \in Request :
            /\ net[s].call = "none" /\ net' = Added(net, s, q)
            /\ q.call = Saving(Mode) /\ q.id = form.id
      BY <2>1, SubmitSends
    <2>3. net \in [Slots -> Requests]
      BY DEF PageInv, TypeOK, Requests
    <2>4. net'[s] = q /\ \A u \in Slots \ {s} : Alike(net'[u], net[u])
      BY <2>2, <2>3, AddedSlots DEF Requests
    <2>5. t = s
      BY <2>4 DEF Alike
    <2>6. form.id = form.wanted /\ (form.edit <=> form.wanted # 0)
      BY DEF PageInv, FilledAsOpened
    <2>7. Mode = IF form.wanted # 0 THEN "edit" ELSE "new"
      BY <2>6 DEF Mode
    <2>8. QED
      BY <2>2, <2>4, <2>5, <2>6, <2>7 DEF Saving
  <1>2. QED
    BY <1>1, PageInvariant, PTL DEF Spec, SavesWhatWasOpened

(* Only the answers to the box, and the page that opens it, touch it.      *)
LEMMA OnlyAnswersEmptyBox ==
  ASSUME [Next]_vars, box # NoBox, box' = NoBox
  PROVE  Confirm \/ Decline
  <1>1. ASSUME NEW i \in Ids, OpenEdit(i) \/ AskDelete(i) \/ Rewrite(i)
        PROVE  FALSE
    BY <1>1 DEF OpenEdit, AskDelete, Rewrite, Acts
  <1>2. ASSUME NEW v \in Views, Enter(v)
        PROVE  FALSE
    BY <1>2 DEF Enter
  <1>3. ASSUME NEW s \in Slots,
               \/ ServeChange(s) \/ ServeRead(s) \/ Refuse(s) \/ Ignored(s) \/ ListAnswered(s)
               \/ ReadAnswered(s) \/ SaveAnswered(s) \/ ChangeAnswered(s) \/ Failed(s)
        PROVE  FALSE
    BY <1>3 DEF ServeChange, ServeRead, Refuse, Ignored, ListAnswered, ReadAnswered, SaveAnswered,
                ChangeAnswered, Failed
  <1>4. CASE Refresh \/ OpenNew \/ Close \/ Submit \/ SubmitInvalid \/ SubmitNameless \/ NamesAnswered
             \/ UNCHANGED vars
    BY <1>4 DEF Refresh, OpenNew, Close, Submit, SubmitInvalid, SubmitNameless, NamesAnswered, vars
  <1>5. QED
    BY <1>1, <1>2, <1>3, <1>4 DEF Next

(* A target that is not shared is heard by the page that asked, and by no  *)
(* other.                                                                  *)
LEMMA AskerHears ==
  ASSUME PageInv, box # NoBox, box.target \notin SharedTargets
  PROVE  Heard <=> box.from = view
  <1> USE DEF PageInv
  <1>1. /\ kind \in AdminKinds /\ view \in {"list", "trash"}
        /\ view = "trash" => kind \in DOMAIN Trashes
    BY AdminAssumption DEF TypeOK, Views, HasTrash
  <1>2. /\ box.from \in {"list", "trash"} /\ box.target = Ask(box.from).asks
        /\ box.from = "trash" => kind \in DOMAIN Trashes
    BY DEF BoxIsOfAsker, Box, Views, HasTrash
  <1>3. CASE view = "list" /\ box.from = "list"
    BY <1>1, <1>2, <1>3, PagesAsk DEF Heard, Ask
  <1>4. CASE view = "trash" /\ box.from = "trash"
    BY <1>1, <1>2, <1>4, TrashesAsk DEF Heard, Ask
  <1>5. CASE view = "list" /\ box.from = "trash"
    BY <1>1, <1>2, <1>5, PagesAndTrashesApart DEF Heard, Ask
  <1>6. CASE view = "trash" /\ box.from = "list"
    BY <1>1, <1>2, <1>6, PagesAndTrashesApart DEF Heard, Ask
  <1>7. QED
    BY <1>1, <1>2, <1>3, <1>4, <1>5, <1>6

(* A confirmation sends one deletion if the page that is shown hears it,   *)
(* and none otherwise.                                                     *)
LEMMA ConfirmDeletes ==
  ASSUME PageInv, Confirm
  PROVE  /\ ~Heard => net' = net
         /\ Heard => \E s \in Slots :
                       /\ s \notin Deletions(net) /\ Deletions(net') = Deletions(net) \cup {s}
                       /\ net'[s].id = box.id /\ net'[s].permanent = Permanent(view)
  <1>1. net \in [Slots -> Requests]
    BY DEF PageInv, TypeOK, Requests
  <1>2. ASSUME Heard
        PROVE  \E s \in Slots :
                 /\ s \notin Deletions(net) /\ Deletions(net') = Deletions(net) \cup {s}
                 /\ net'[s].id = box.id /\ net'[s].permanent = Permanent(view)
    <2>1. PICK s \in Slots, q \in Request :
            /\ net[s].call = "none" /\ net' = Added(net, s, q)
            /\ q.call = "delete" /\ q.id = box.id /\ q.permanent = Permanent(view) /\ q.at = "sent"
      BY <1>2, ConfirmSends
    <2>2. net'[s] = q /\ \A t \in Slots \ {s} : Alike(net'[t], net[t])
      BY <1>1, <2>1, AddedSlots DEF Requests
    <2>3. s \notin Deletions(net) /\ Deletions(net') = Deletions(net) \cup {s}
      BY <2>1, <2>2 DEF Deletions, Alike
    <2>4. QED
      BY <2>1, <2>2, <2>3
  <1>3. QED
    BY <1>2, ConfirmSends

(* A confirmation deletes the row that the box named, on behalf of the     *)
(* page that asked, and once.                                              *)
THEOREM PageDeletes == Spec => DeletesAsAsked
  <1> DEFINE AsAsked ==
               box # NoBox /\ box' = NoBox /\ box.target \notin SharedTargets =>
                 \A s \in Deletions(net') \ Deletions(net) :
                   /\ net'[s].id = box.id
                   /\ box.from = view
                   /\ HasTrash(kind) => (net'[s].permanent <=> box.from = "trash")
             Once ==
               Confirm /\ box.from = view /\ box.target \notin SharedTargets =>
                 Cardinality(Deletions(net')) = Cardinality(Deletions(net)) + 1
  <1>1. PageInv /\ [Next]_vars => AsAsked
    <2> SUFFICES ASSUME PageInv, [Next]_vars, box # NoBox, box' = NoBox,
                        box.target \notin SharedTargets, NEW s \in Deletions(net') \ Deletions(net)
                 PROVE  /\ net'[s].id = box.id
                        /\ box.from = view
                        /\ HasTrash(kind) => (net'[s].permanent <=> box.from = "trash")
      OBVIOUS
    <2>1. Confirm
      BY OnlyAnswersEmptyBox DEF Decline, Deletions
    <2>2. Heard
      BY <2>1, ConfirmDeletes
    <2>3. box.from = view
      BY <2>2, AskerHears
    <2>4. net'[s].id = box.id /\ net'[s].permanent = Permanent(view)
      BY <2>1, <2>2, ConfirmDeletes
    <2>5. kind \in AdminKinds
      BY AdminAssumption DEF PageInv, TypeOK
    <2>6. HasTrash(kind) => (Permanent(view) <=> view = "trash")
      BY <2>5, ClientsList DEF Permanent
    <2>7. QED
      BY <2>3, <2>4, <2>6
  <1>2. PageInv /\ [Next]_vars => Once
    <2> SUFFICES ASSUME PageInv, Confirm, box.from = view, box.target \notin SharedTargets
                 PROVE  Cardinality(Deletions(net')) = Cardinality(Deletions(net)) + 1
      OBVIOUS
    <2>1. Heard
      BY AskerHears DEF Confirm
    <2>2. PICK s \in Slots : s \notin Deletions(net) /\ Deletions(net') = Deletions(net) \cup {s}
      BY <2>1, ConfirmDeletes
    <2>3. IsFiniteSet(Deletions(net))
      BY AdminAssumption, FS_Subset DEF Deletions
    <2>4. QED
      BY <2>2, <2>3, FS_AddElement
  <1>3. QED
    BY <1>1, <1>2, PageInvariant, PTL DEF Spec, DeletesAsAsked
===============================================================================
