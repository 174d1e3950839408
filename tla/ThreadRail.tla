------------------------------ MODULE ThreadRail ------------------------------
(***************************************************************************)
(* The chat rail of the web console and the part of the service it talks   *)
(* to.  The console keeps a list of threads: drafts, which only it knows,  *)
(* and threads of the service.  The interval reads the list; what it read  *)
(* arrives any time later, so that a list read before a thread was created *)
(* or a message was posted may arrive after it.  A POST is served and      *)
(* answered in steps of their own; the list a call reads at its end        *)
(* arrives as it is served.                                                *)
(*                                                                         *)
(* Left out: what is typed and shown in a thread, which thread is active,  *)
(* minimizing, titles and contexts, the other tabs, other clients.         *)
(***************************************************************************)
EXTENDS Naturals, Sequences, FiniteSets, SequencesExt

CONSTANTS
    Mons,        \* the Mons of the Monde that is selected
    MaxSends,    \* bound: messages the operator sends
    MaxLosses    \* bound: fetches that fail

ASSUME MonsAssumption == Mons # {} /\ IsFiniteSet(Mons)
ASSUME BoundsAssumption == MaxSends \in Nat \ {0} /\ MaxLosses \in Nat

Sends == 1..MaxSends
Drafts == {"draft"} \X Mons \X {0}
Servers == {"run"} \X Mons \X Sends
Ids == Drafts \cup Servers
NoId == <<"none">>

VARIABLES
    srv,        \* the threads of the service: runtime_state, turn in progress, chat events
    ui,         \* threads, expandedThreadIds, threadSendingIds
    ops,        \* the calls of sendThreadMessage(): stage, threadId, thread answered
    closing,    \* threads whose close is confirmed or on its way
    list,       \* lists of the interval on their way, one at most
    losses      \* fetches that failed

vars == <<srv, ui, ops, closing, list, losses>>

-----------------------------------------------------------------------------
(* Types *)

OpenState == {"running", "waiting_for_user", "idle_open"}
Entry == [id : Ids, state : OpenState]
Stage == {"none", "create", "created", "post", "refused", "turn", "answered", "refresh",
          "done"}

TypeOK ==
    /\ srv \in [Servers -> [state : OpenState \cup {"none", "closed"}, turn : 0..MaxSends]]
    /\ ui \in [threads : Seq(Entry), expanded : SUBSET Ids, sending : SUBSET Ids]
    /\ ops \in [Sends -> [stage : Stage, id : Ids \cup {NoId}, made : Servers \cup {NoId}]]
    /\ closing \subseteq Servers
    /\ \A l \in list : l \in Seq(Entry)
    /\ losses \in 0..MaxLosses

Init ==
    /\ srv = [t \in Servers |-> [state |-> "none", turn |-> 0]]
    /\ ui = [threads |-> <<>>, expanded |-> {}, sending |-> {}]
    /\ ops = [n \in Sends |-> [stage |-> "none", id |-> NoId, made |-> NoId]]
    /\ closing = {} /\ list = {} /\ losses = 0

-----------------------------------------------------------------------------
(* Lists of threads *)

IsDraft(t) == t \in Drafts
MonOf(t) == t[2]
IdsOf(threads) == {threads[i].id : i \in DOMAIN threads}
EntryOf(threads, t) == threads[CHOOSE i \in DOMAIN threads : threads[i].id = t]
WithState(threads, t, state) ==
    [i \in DOMAIN threads |-> IF threads[i].id = t THEN [threads[i] EXCEPT !.state = state]
                                                   ELSE threads[i]]

\* The entries whose id is one of ids, in the order they have.
Keep(threads, ids) ==
    LET kept == {i \in DOMAIN threads : threads[i].id \in ids}
        places == 1..Cardinality(kept)
        order == CHOOSE f \in [places -> kept] : \A i, j \in places : i < j => f[i] < f[j]
    IN  [i \in places |-> threads[order[i]]]

UpsertById(threads, e) ==
    IF e.id \in IdsOf(threads)
    THEN [i \in DOMAIN threads |-> IF threads[i].id = e.id THEN e ELSE threads[i]]
    ELSE <<e>> \o threads

AppendById(threads, e) == IF e.id \in IdsOf(threads) THEN threads ELSE Append(threads, e)

\* Mutant: the thread is put in the place of the draft, and left where it was as well.
ReplaceByIdTwice(threads, replaced, e) ==
    [i \in DOMAIN threads |-> IF threads[i].id = replaced THEN e ELSE threads[i]]

\* e takes the place of the entry it replaces, whatever place it had itself.
ReplaceById(threads, replaced, e) ==
    LET others == Keep(threads, Ids \ {e.id})
    IN  IF replaced \in IdsOf(threads)
        THEN [i \in DOMAIN others |-> IF others[i].id = replaced THEN e ELSE others[i]]
        ELSE Append(others, e)

\* Mutant: the list of the service comes as it is, then the drafts.
MergeInServerOrder(server, current) ==
    server \o Keep(current, Drafts)

\* Mutant: drafts are not in the list of the service.
MergeWithoutDrafts(server, current) ==
    LET kept == Keep(current, IdsOf(server))
        fresh == Keep(server, Ids \ IdsOf(current))
    IN  [i \in DOMAIN kept |-> EntryOf(server, kept[i].id)] \o fresh

\* Mutant: a thread that is there is left as it is.
MergeKeepsShown(server, current) ==
    LET kept == Keep(current, Drafts \cup IdsOf(server))
        fresh == Keep(server, Ids \ IdsOf(current))
    IN  kept \o fresh

\* Drafts stay, threads the service does not list go, new ones come last.
MergeServerAndDraftThreads(server, current) ==
    LET kept == Keep(current, Drafts \cup IdsOf(server))
        fresh == Keep(server, Ids \ IdsOf(current))
    IN  [i \in DOMAIN kept |-> IF IsDraft(kept[i].id) THEN kept[i]
                                                      ELSE EntryOf(server, kept[i].id)]
        \o fresh

-----------------------------------------------------------------------------
(* Rendering *)

\* Mutant: a thread that is gone stays expanded.
EffectsOfNothing(new) == new

\* The effect that runs when the threads changed.
Effects(new) == [new EXCEPT !.expanded = @ \cap IdsOf(new.threads)]

Render(new) == ui' = Effects(new)

Listed(t) == t \in IdsOf(ui.threads)
StateOf(t) == EntryOf(ui.threads, t).state

-----------------------------------------------------------------------------
(* The operator *)

\* openMonThread(): the draft of the Mon, or a new one.
OpenMonThread(m) ==
    /\ LET draft == <<"draft", m, 0>>
       IN  Render([ui EXCEPT !.threads = AppendById(@, [id |-> draft, state |-> "idle_open"]),
                             !.expanded = @ \cup {draft}])
    /\ UNCHANGED <<srv, ops, closing, list, losses>>

OpenThread(t) ==
    /\ Listed(t) /\ t \notin ui.expanded
    /\ Render([ui EXCEPT !.expanded = @ \cup {t}])
    /\ UNCHANGED <<srv, ops, closing, list, losses>>

\* sendThreadMessage() up to its first fetch.
Send(n, t) ==
    /\ ops[n].stage = "none" /\ \A k \in 1..(n - 1) : ops[k].stage # "none"
    /\ Listed(t) /\ t \in ui.expanded /\ t \notin ui.sending
    /\ Render([ui EXCEPT !.threads = WithState(@, t, "running"), !.sending = @ \cup {t}])
    /\ ops' = [ops EXCEPT ![n] = [stage |-> IF IsDraft(t) THEN "create" ELSE "post", id |-> t,
                                  made |-> NoId]]
    /\ UNCHANGED <<srv, closing, list, losses>>

\* What the console drops with a thread.
Forget(t) ==
    [ui EXCEPT !.threads = Keep(@, Ids \ {t}), !.expanded = @ \ {t},
               !.sending = @ \ {t}]

\* closeThread(): a draft goes at once, a thread of the service when that has closed it.
CloseThread(t) ==
    /\ Listed(t) /\ StateOf(t) # "running"
    /\ IF IsDraft(t) THEN Render(Forget(t)) /\ UNCHANGED closing
       ELSE closing' = closing \cup {t} /\ UNCHANGED ui
    /\ UNCHANGED <<srv, ops, list, losses>>

-----------------------------------------------------------------------------
(* The service *)

IsOpen(t) == srv[t].state \in OpenState

\* Mutant: the filter on runtime_state is forgotten.
AllThreads ==
    {[i \in DOMAIN order |-> [id |-> order[i], state |-> srv[order[i]].state]] :
        order \in SetToSeqs({t \in Servers : srv[t].state # "none"})}

\* GET /mondes/:mondeId/threads?runtime_state=open, latest update first: in any order.
OpenThreads ==
    {[i \in DOMAIN order |-> [id |-> order[i], state |-> srv[order[i]].state]] :
        order \in SetToSeqs({t \in Servers : IsOpen(t)})}

At(n, stage) == ops[n].stage = stage
Advance(n, stage) == ops' = [ops EXCEPT ![n].stage = stage]
Return(n) == ops' = [ops EXCEPT ![n] = [stage |-> "done", id |-> NoId, made |-> NoId]]

\* POST /mondes/:mondeId/threads: the latest open thread of the Mon, or a new one.
ServeCreate(n) ==
    /\ At(n, "create")
    /\ LET ofMon == {t \in Servers : MonOf(t) = MonOf(ops[n].id)}
           existing == {t \in ofMon : IsOpen(t)}
           fresh == {t \in ofMon : srv[t].state = "none" /\
                        \A u \in ofMon : u[3] < t[3] => srv[u].state # "none"}
       IN  \E t \in IF existing # {} THEN existing ELSE fresh :
              /\ ops' = [ops EXCEPT ![n].stage = "created", ![n].made = t]
              /\ srv' = IF existing # {} THEN srv ELSE [srv EXCEPT ![t].state = "idle_open"]
    /\ UNCHANGED <<ui, closing, list, losses>>

\* POST /runs/:id/messages: refused when the thread is closed.  A turn that cannot be
\* begun, as when another is in progress, is answered with its error.
ServePost(n, begun) ==
    LET t == ops[n].id
    IN  /\ At(n, "post")
        /\ begun => IsOpen(t) /\ srv[t].turn = 0
        /\ IF ~IsOpen(t) THEN Advance(n, "refused") /\ UNCHANGED srv
           ELSE /\ Advance(n, IF begun THEN "turn" ELSE "answered")
                /\ srv' = [srv EXCEPT
                     ![t].state = IF begun THEN "running" ELSE "waiting_for_user",
                     ![t].turn = IF begun THEN n ELSE @]
        /\ UNCHANGED <<ui, closing, list, losses>>

\* The turn ends, even when nobody waits for it any more.
TurnEnds(t) ==
    /\ srv[t].turn # 0
    /\ LET n == srv[t].turn
       IN  /\ srv' = [srv EXCEPT ![t] = [state |-> "waiting_for_user", turn |-> 0]]
           /\ IF At(n, "turn") THEN Advance(n, "answered") ELSE UNCHANGED ops
    /\ UNCHANGED <<ui, closing, list, losses>>

\* POST /runs/:id/close, whatever the thread is doing, and its answer.
Close(t) ==
    /\ t \in closing /\ closing' = closing \ {t}
    /\ srv' = [srv EXCEPT ![t].state = "closed"]
    /\ Render(Forget(t))
    /\ UNCHANGED <<ops, list, losses>>

\* A fetch fails, within the bound.
Failing == losses < MaxLosses /\ losses' = losses + 1

\* The list of the interval, of the refresh button, of any other refreshAll(): that takes a
\* list it cannot read for an empty one.
PollList ==
    /\ list = {}
    /\ \/ UNCHANGED losses /\ \E threads \in OpenThreads : list' = {threads}
       \/ Failing /\ list' = {<<>>}
    /\ UNCHANGED <<srv, ui, ops, closing>>

-----------------------------------------------------------------------------
(* Answers *)

\* The draft becomes the thread; the message is posted to it.
GetThread(n) ==
    /\ At(n, "created")
    /\ LET draft == ops[n].id
           t == ops[n].made
       IN  /\ Render([ui EXCEPT
                !.threads = ReplaceById(@, draft, [id |-> t, state |-> "running"]),
                !.expanded = (@ \ {draft}) \cup {t},
                !.sending = (@ \ {draft}) \cup {t}])
           /\ ops' = [ops EXCEPT ![n] = [stage |-> "post", id |-> t, made |-> NoId]]
    /\ UNCHANGED <<srv, closing, list, losses>>

\* The thread is put in the list, its history is asked for.
GetAnswer(n) ==
    /\ At(n, "answered") /\ Advance(n, "refresh")
    /\ Render([ui EXCEPT !.threads =
                  UpsertById(@, [id |-> ops[n].id, state |-> "waiting_for_user"])])
    /\ UNCHANGED <<srv, closing, list, losses>>

\* refreshAll() of a call, and the finally.  A list of threads that cannot be read is merged
\* as an empty one; when another of its fetches fails, the rail is left as it is.
GetRefresh(n) ==
    /\ At(n, "refresh") /\ Return(n)
    /\ LET idle == [ui EXCEPT !.sending = @ \ {ops[n].id}]
           Merge(threads) ==
               Render([idle EXCEPT !.threads = MergeServerAndDraftThreads(threads, @)])
       IN  \/ UNCHANGED losses /\ \E threads \in OpenThreads : Merge(threads)
           \/ Failing /\ (Merge(<<>>) \/ Render(idle))
    /\ UNCHANGED <<srv, closing, list>>

GetPolledList ==
    /\ list' = {}
    /\ \E l \in list : Render([ui EXCEPT !.threads = MergeServerAndDraftThreads(l, @)])
    /\ UNCHANGED <<srv, ops, closing, losses>>

\* Mutant: only a call that succeeds clears the flag.
FailedKeepsFlag(t) == [ui EXCEPT !.threads = WithState(@, t, "waiting_for_user")]

\* The catch and the finally of sendThreadMessage().
Failed(t) ==
    [ui EXCEPT !.threads = WithState(@, t, "waiting_for_user"), !.sending = @ \ {t}]

Fail(n) ==
    /\ Render(Failed(ops[n].id))
    /\ Return(n)
    /\ UNCHANGED <<srv, closing, list>>

GetRefusal(n) == At(n, "refused") /\ Fail(n) /\ UNCHANGED losses

\* A fetch of the call fails, that of the history included: the service may have handled
\* it, or be at it.
Lose(n) ==
    /\ ops[n].stage \in {"create", "created", "post", "turn", "answered", "refresh"}
    /\ Failing
    /\ Fail(n)

\* The close fails, or is not confirmed: an error is all the operator sees.
LoseClose(t) ==
    /\ t \in closing /\ closing' = closing \ {t}
    /\ UNCHANGED <<srv, ui, ops, list, losses>>

-----------------------------------------------------------------------------
Operator ==
    \/ \E m \in Mons : OpenMonThread(m)
    \/ \E t \in Ids : OpenThread(t) \/ CloseThread(t)
    \/ \E n \in Sends, t \in Ids : Send(n, t)

Service ==
    \/ \E n \in Sends : ServeCreate(n) \/ \E begun \in BOOLEAN : ServePost(n, begun)
    \/ \E t \in Servers : TurnEnds(t) \/ Close(t)
    \/ PollList

\* The call n of sendThreadMessage(), on the side of the console
Call(n) == GetThread(n) \/ GetAnswer(n) \/ GetRefresh(n) \/ GetRefusal(n)

Console ==
    \/ \E n \in Sends : Call(n) \/ Lose(n)
    \/ \E t \in Servers : LoseClose(t)
    \/ GetPolledList

Next == Operator \/ Service \/ Console

Spec == Init /\ [][Next]_vars

\* Requests are served and answers arrive; the interval comes round as long as a thread of
\* the service is expanded: weak fairness of each, with its guard written out.
Due(n) == ops[n].stage \in {"created", "answered", "refresh", "refused"}
Polled == ui.expanded \cap Servers # {} /\ list = {}

Fairness ==
    /\ \A n \in Sends :
        /\ []<>~At(n, "create") \/ []<><<ServeCreate(n)>>_vars
        /\ []<>~At(n, "post") \/ []<><<\E begun \in BOOLEAN : ServePost(n, begun)>>_vars
        /\ []<>~Due(n) \/ []<><<Call(n)>>_vars
    /\ \A t \in Servers : []<>(srv[t].turn = 0) \/ []<><<TurnEnds(t)>>_vars
    /\ []<>~Polled \/ []<><<Polled /\ PollList>>_vars
    /\ []<>(list = {}) \/ []<><<GetPolledList>>_vars

FairSpec == Spec /\ Fairness

-----------------------------------------------------------------------------
(* Properties *)

\* A thread is in the rail once, though drafts are answered with threads that are there
\* already and lists arrive before and after those answers.
ThreadListedOnce ==
    \A i, j \in DOMAIN ui.threads : ui.threads[i].id = ui.threads[j].id => i = j

\* What is expanded is in the rail, whoever removed it from there.
ExpandedIsListed == ui.expanded \subseteq IdsOf(ui.threads)

\* The state invariant of the rail: the parts above, together.
RailInv == TypeOK /\ ThreadListedOnce /\ ExpandedIsListed

Position(threads, t) == CHOOSE i \in DOMAIN threads : threads[i].id = t

\* "Thread order is stable in the rail" (frontend-product-pass.md): threads that stay keep
\* their order, but for the one that takes the place of its draft.
OrderIsStable ==
    [][\A t, u \in IdsOf(ui.threads) \cap IdsOf(ui.threads)' :
        /\ \A n \in Sends : At(n, "created") /\ At(n, "post")' => ops[n].made \notin {t, u}
        => (Position(ui.threads, t) < Position(ui.threads, u)
                <=> Position(ui.threads', t) < Position(ui.threads', u))]_vars

\* A draft leaves the rail when its thread takes its place or when the operator closes it,
\* never because of what the service lists, and never while its message is on the way.
DraftIsKept ==
    [][\A d \in Drafts : d \in IdsOf(ui.threads) /\ d \notin IdsOf(ui.threads)' =>
        \/ \E n \in Sends : ops[n].id = d /\ At(n, "created") /\ At(n, "post")'
        \/ d \notin ui.sending /\ UNCHANGED <<ops, list>>]_vars

\* Nothing the service says moves a thread or takes a draft away: both of the above.
RailIsStable == OrderIsStable /\ DraftIsKept

\* In the end the rail shows a thread that stays expanded as the service has it, in whatever
\* order the answers came: no "running" that stays when the turn is over.
ConsoleConverges ==
    \A t \in Servers : <>[](t \in ui.expanded) => <>[](Listed(t) /\ StateOf(t) = srv[t].state)

\* Nothing is shown as being sent for ever.
SendEnds == <>[](ui.sending = {})
=============================================================================
