-------------------------------- MODULE Tui --------------------------------
(***************************************************************************)
(* The terminal UI (core/tui): the views, the filter and the selection,    *)
(* the fetches that overlap, the lifecycle verbs it sends, and the log     *)
(* streams a viewer tails.                                                 *)
(*                                                                         *)
(* Update handles one message at a time; the commands it returns run       *)
(* beside it and answer with messages in any order.                        *)
(***************************************************************************)
EXTENDS Naturals, Sequences, SequencesExt, FiniteSets

CONSTANTS
    Listings,       \* what the daemon may answer: rows of id, state and type
    NameHits,       \* search text to the ids that contain it
    MaxFetches,     \* bound: fetches under way
    MaxStreams,     \* bound: log streams opened
    MaxLines,       \* bound: lines published on them
    LogCap          \* bound: lines a stream's channel holds (100 in GetLogs)

ASSUME TuiAssumption ==
    /\ MaxFetches \in Nat /\ MaxStreams \in Nat /\ MaxLines \in Nat /\ LogCap \in Nat \ {0}
    /\ <<>> \in Listings

Streams == 1..MaxStreams
None    == 0

VARIABLES
    view,           \* overview, global, logs or detail
    rows,           \* m.agents
    selectedIdx,    \* counted from 0
    filter,         \* mode, query, active, input
    quitting,
    fetching,       \* FetchStatus calls under way
    fetched,        \* answers not handled yet
    acting,         \* verbs sent and not answered
    acted,          \* history: whom the last verb went to, which row was lit
    stream,         \* each log stream: unused, live or cancelled
    logCancel,      \* the stream the cancel function belongs to, or None
    sub,            \* the viewer's channel, or None
    queued,         \* lines in each stream's channel
    waiters,        \* waitForLog commands per stream
    logMsgs,        \* their answers not handled yet
    lines           \* lines published so far

listVars == <<rows, selectedIdx, filter, fetching, fetched, acting, acted>>
logVars  == <<stream, logCancel, sub, queued, waiters, logMsgs, lines>>
tuiVars  == <<view, quitting, listVars, logVars>>

-----------------------------------------------------------------------------
(* The filter.                                                             *)

NoFilter    == [mode |-> "none", query |-> "", active |-> FALSE, input |-> ""]
Activate(f, m) == [f EXCEPT !.mode = m, !.active = TRUE, !.input = ""]
Deactivate(f)  ==
    IF f.mode = "name" THEN NoFilter ELSE [f EXCEPT !.active = FALSE, !.input = ""]
SetQuery(f, q) == [f EXCEPT !.query = q]

Matches(f, a) ==
    \/ f.mode = "none" \/ f.query = ""
    \/ f.mode = "state" /\ a.state = f.query
    \/ f.mode = "type" /\ a.type = f.query
    \/ f.mode = "name" /\ f.query \in DOMAIN NameHits /\ a.id \in NameHits[f.query]

\* f cycles running, stopped, off; t cycles service, timer, socket, off.
Cycle(f, m, qs) ==
    LET i == IF f.mode = m /\ \E j \in 1..Len(qs) : qs[j] = f.query
             THEN CHOOSE j \in 1..Len(qs) : qs[j] = f.query ELSE 0
    IN CASE i = 0       -> Deactivate(SetQuery(Activate(f, m), qs[1]))
         [] i = Len(qs) -> SetQuery([f EXCEPT !.mode = "none"], "")
         [] OTHER       -> SetQuery(f, qs[i + 1])

FilterCycled(f) == {Cycle(f, "state", <<"running", "stopped">>),
                    Cycle(f, "type", <<"service", "timer", "socket">>)}

\* While a search is typed, every key of the list goes to it.
Typed(f) ==
    {[f EXCEPT !.input = i] : i \in DOMAIN NameHits \cup {""}} \cup
    {SetQuery([f EXCEPT !.active = FALSE], f.input), Deactivate(f)}

-----------------------------------------------------------------------------
(* The list.                                                               *)

Listing == view \in {"overview", "global"}
OnList  == ~quitting /\ Listing /\ ~filter.active

\* renderList: global specs and instances have a tab each, then the filter.
Visible(a) ==
    /\ view = "overview" => a.type # "global-spec"
    /\ view = "global" => a.type = "global-spec"
    /\ Matches(filter, a)
Displayed   == SelectSeq(rows, Visible)
Highlighted == IF selectedIdx < Len(Displayed) THEN Displayed[selectedIdx + 1].id ELSE "none"

\* The keys act on m.agents[m.selectedIdx].
HasSelected == selectedIdx < Len(rows)
Selected    == rows[selectedIdx + 1].id

FilterKeys ==
    /\ ~quitting /\ Listing
    /\ \/ filter.active /\ filter' \in Typed(filter)
       \/ ~filter.active /\ filter' \in
            FilterCycled(filter) \cup {Activate(filter, "name"),
                                       SetQuery([filter EXCEPT !.mode = "none"], "")}
    /\ UNCHANGED <<view, quitting, rows, selectedIdx, fetching, fetched, acting, acted,
                   logVars>>

Filtered == Cardinality({i \in 1..Len(rows) : Matches(filter, rows[i])})

MoveKeys ==
    /\ OnList
    /\ \/ selectedIdx > 0 /\ selectedIdx' = selectedIdx - 1
       \/ selectedIdx + 1 < Filtered /\ selectedIdx' = selectedIdx + 1
    /\ UNCHANGED <<view, quitting, rows, filter, fetching, fetched, acting, acted, logVars>>

\* s, x and r: sendLifecycleAction on the selected agent.
ActKeys ==
    /\ OnList /\ HasSelected /\ ~acting
    /\ acting' = TRUE /\ acted' = [to |-> Selected, lit |-> Highlighted]
    /\ UNCHANGED <<view, quitting, rows, selectedIdx, filter, fetching, fetched, logVars>>

\* enter opens the detail, whose esc goes back; tab shows the global specs.
ViewKeys ==
    /\ ~quitting
    /\ \/ OnList /\ view' = "detail"
       \/ OnList /\ view = "overview" /\ view' = "global"
       \/ view = "detail" /\ view' = "overview"
    /\ UNCHANGED <<quitting, listVars, logVars>>

Quit ==
    /\ ~quitting /\ ~(Listing /\ filter.active) /\ quitting' = TRUE
    /\ UNCHANGED <<view, listVars, logVars>>

-----------------------------------------------------------------------------
(* Logs.                                                                   *)

\* tab on the global specs tails the cluster, l the selected agent: a new
\* viewer, a new stream, and a command that waits for its first line.
OpenLogs(s) ==
    /\ OnList /\ stream[s] = "unused" /\ (\A r \in Streams : r < s => stream[r] # "unused")
    /\ view = "global" \/ HasSelected
    /\ view' = "logs"
    /\ \/ /\ stream' = [stream EXCEPT ![s] = "live"] /\ logCancel' = s /\ sub' = s
          /\ waiters' = [waiters EXCEPT ![s] = 1]
       \/ /\ logCancel' = None /\ sub' = None     \* GetLogs failed
          /\ UNCHANGED <<stream, waiters>>
    /\ UNCHANGED <<quitting, listVars, queued, logMsgs, lines>>

\* l with nothing selected shows the old viewer.
OldLogs ==
    /\ OnList /\ ~HasSelected /\ view' = "logs"
    /\ UNCHANGED <<quitting, listVars, logVars>>

\* Mutant of CancelLogs: leaving the logs forgets the stream.
CancelLogsNever == UNCHANGED <<stream, logCancel>>

CancelLogs ==
    IF logCancel # None
    THEN stream' = [stream EXCEPT ![logCancel] = "cancelled"] /\ logCancel' = None
    ELSE UNCHANGED <<stream, logCancel>>

LeaveLogs ==
    /\ ~quitting /\ view = "logs" /\ view' = "overview" /\ CancelLogs
    /\ UNCHANGED <<quitting, listVars, sub, queued, waiters, logMsgs, lines>>

\* The bus delivers a line to a live subscription; a full channel drops it.
Line(s) ==
    /\ stream[s] = "live" /\ lines < MaxLines /\ lines' = lines + 1
    /\ queued' = [queued EXCEPT ![s] = IF @ < LogCap THEN @ + 1 ELSE @]
    /\ UNCHANGED <<view, quitting, listVars, stream, logCancel, sub, waiters, logMsgs>>

WaitForLog(s) ==
    /\ waiters[s] > 0 /\ queued[s] > 0
    /\ waiters' = [waiters EXCEPT ![s] = @ - 1] /\ queued' = [queued EXCEPT ![s] = @ - 1]
    /\ logMsgs' = [logMsgs EXCEPT ![s] = @ + 1]
    /\ UNCHANGED <<view, quitting, listVars, stream, logCancel, sub, lines>>

\* Mutant of Rewait: only a line of the viewer's own stream is followed by a wait.
RewaitSame(s) == IF s = sub THEN waiters ELSE [waiters EXCEPT ![s] = @ + 1]

\* The next wait is on the channel of the viewer there is now.
Rewait(s) == IF sub # None THEN [waiters EXCEPT ![sub] = @ + 1] ELSE waiters

UpdateLog(s) ==
    /\ ~quitting /\ logMsgs[s] > 0
    /\ logMsgs' = [logMsgs EXCEPT ![s] = @ - 1] /\ waiters' = Rewait(s)
    /\ UNCHANGED <<view, quitting, listVars, stream, logCancel, sub, queued, lines>>

-----------------------------------------------------------------------------
(* Fetches and answers.                                                    *)

\* A tick fetches and ticks again, whatever is still under way.
Tick ==
    /\ ~quitting /\ fetching < MaxFetches /\ fetching' = fetching + 1
    /\ UNCHANGED <<view, quitting, rows, selectedIdx, filter, fetched, acting, acted,
                   logVars>>

\* The daemon answers, or the fetch fails and its error is dropped by Update.
Fetch ==
    /\ fetching > 0 /\ fetching' = fetching - 1
    /\ \/ \E l \in Listings : fetched' = fetched \cup {l}
       \/ UNCHANGED fetched
    /\ UNCHANGED <<view, quitting, rows, selectedIdx, filter, acting, acted, logVars>>

UpdateStatus ==
    /\ ~quitting
    /\ \E l \in fetched : rows' = l /\ fetched' = fetched \ {l}
    /\ UNCHANGED <<view, quitting, selectedIdx, filter, fetching, acting, acted, logVars>>

\* The verb's answer: success fetches at once, a timeout or an error is kept.
UpdateAction ==
    /\ ~quitting /\ acting /\ acting' = FALSE
    /\ fetching' \in {fetching} \cup (IF fetching < MaxFetches THEN {fetching + 1} ELSE {})
    /\ UNCHANGED <<view, quitting, rows, selectedIdx, filter, fetched, acted, logVars>>

-----------------------------------------------------------------------------
TuiInit ==
    /\ view = "overview" /\ quitting = FALSE
    /\ rows = <<>> /\ selectedIdx = 0 /\ filter = NoFilter
    /\ fetching = 1 /\ fetched = {} /\ acting = FALSE
    /\ acted = [to |-> "none", lit |-> "none"]
    /\ stream = [s \in Streams |-> "unused"] /\ logCancel = None /\ sub = None
    /\ queued = [s \in Streams |-> 0] /\ waiters = [s \in Streams |-> 0]
    /\ logMsgs = [s \in Streams |-> 0] /\ lines = 0

TuiNext ==
    \/ FilterKeys \/ MoveKeys \/ ActKeys \/ ViewKeys \/ Quit \/ OldLogs \/ LeaveLogs
    \/ Tick \/ Fetch \/ UpdateStatus \/ UpdateAction
    \/ \E s \in Streams : OpenLogs(s) \/ Line(s) \/ WaitForLog(s) \/ UpdateLog(s)

TuiSpec == TuiInit /\ [][TuiNext]_tuiVars

-----------------------------------------------------------------------------
TuiTypeOK ==
    /\ view \in {"overview", "global", "logs", "detail"} /\ rows \in Listings
    /\ fetched \subseteq Listings /\ fetching \in 0..MaxFetches
    /\ logCancel \in Streams \cup {None} /\ sub \in Streams \cup {None}
    /\ waiters \in [Streams -> Nat] /\ logMsgs \in [Streams -> Nat]

\* Only the viewer on the screen holds a live subscription, whatever answers of
\* earlier streams are still under way: leaving the logs by tab or esc cancels.
\* And its tail never stops following: a command waits on that stream, or its
\* answer is on the way, although a late line of an earlier stream is handled by
\* the same viewer.
TailFollows ==
    \A s \in Streams : stream[s] = "live" =>
      /\ view = "logs" /\ sub = s /\ logCancel = s
      /\ waiters[s] + logMsgs[s] > 0

\* A verb goes to the agent whose row is lit: the keys are "Start selected agent",
\* "Stop selected agent", "Reload selected agent".
ActsOnHighlighted == acted.to = acted.lit
=============================================================================
