------------------------------- MODULE Agent -------------------------------
(***************************************************************************)
(* backmaster-agent: one GTK main loop that keeps a subscription to the    *)
(* daemon and shows one popup at a time.  Every callback runs to its end   *)
(* before the next, but the daemon stops, starts and broadcasts between    *)
(* any two of them.                                                        *)
(***************************************************************************)
EXTENDS Integers, SequencesExt, FiniteSets

CONSTANTS
    QueueMax,   \* 8 in the code
    FillMax,    \* alerts that fit in kMaxLine, 256 KiB: fill gives up beyond
    AutoClose,  \* whether --timeout leaves popups dismissing themselves
    MaxAlerts,  \* bound: alerts the daemon broadcasts
    MaxStops    \* bound: times the daemon stops or cuts the agent off

ASSUME AgentAssumption == /\ QueueMax \in Nat \ {0} /\ FillMax \in Nat
                          /\ AutoClose \in BOOLEAN
                          /\ MaxAlerts \in Nat \ {0} /\ MaxStops \in Nat

VARIABLES
    mode,       \* "idle", "live" (subscribed to a daemon), "demo" or "quit"
    daemon,     \* whether something listens on the daemon's socket
    stops,      \* times the daemon has stopped or cut the agent off
    link,       \* conn: "none", "open", or "hup" once the daemon closed it
    inbox,      \* the alerts in the socket, not yet read
    outbox,     \* the exclusion requests in the socket
    source,     \* io_source is set
    retry,      \* retry_source is set
    screen,     \* queue, showing and the popup window
    raised,     \* the kinds of the alerts broadcast so far
    fate,       \* history: what became of each of them
    asks,       \* history: what became of the request to exclude its subject
    handled     \* history: the requests the daemon has handled

vars == <<mode, daemon, stops, link, inbox, outbox, source, retry, screen, raised, fate,
          asks, handled>>

(* "quiet" alerts are below one of the two popup thresholds.               *)
Kinds == {"quiet", "normal", "critical"}
Ids == 1..MaxAlerts
Fates == {"none", "missed", "sent", "quiet", "queued", "pushed out", "shown", "discarded"}
Asks == {"no", "nowhere", "sent", "handled", "lost"}
NoPopup == [alert |-> 0]
Popups == [alert : Ids, sticky : BOOLEAN]

(* Connection, queue, popup and the fates of the alerts are in their       *)
(* domains.                                                                *)
TypeOK ==
    /\ mode \in {"idle", "live", "demo", "quit"}
    /\ daemon \in BOOLEAN /\ stops \in 0..MaxStops
    /\ link \in {"none", "open", "hup"}
    /\ inbox \in Seq(Ids)
    /\ source \in BOOLEAN /\ retry \in BOOLEAN
    /\ screen \in [queue : Seq(Ids), showing : BOOLEAN, popup : Popups \cup {NoPopup}]
    /\ raised \in Seq(Kinds)
    /\ fate \in [Ids -> Fates]
    /\ outbox \in Seq(Ids) /\ asks \in [Ids -> Asks] /\ handled \in Seq(Ids)

Init ==
    /\ mode = "idle" /\ daemon \in BOOLEAN /\ stops = 0
    /\ link = "none" /\ inbox = <<>> /\ source = FALSE /\ retry = FALSE
    /\ screen = [queue |-> <<>>, showing |-> FALSE, popup |-> NoPopup]
    /\ raised = <<>> /\ fate = [n \in Ids |-> "none"]
    /\ outbox = <<>> /\ asks = [n \in Ids |-> "no"] /\ handled = <<>>

linkVars == <<link, inbox, outbox, source, retry>>
askVars == <<asks, handled>>
worldVars == <<daemon, stops, raised>>

----------------------------------------------------------------------------
(* The queue and the popup.                                                *)

(* Mutant: showing stays set when there is nothing more to show.           *)
ShowNextNeverIdle(s) ==
    IF s.queue = <<>>
    THEN [s EXCEPT !.popup = NoPopup]
    ELSE [queue |-> Tail(s.queue), showing |-> TRUE,
          popup |-> [alert |-> Head(s.queue), sticky |-> FALSE]]

ShowNext(s) ==
    IF s.queue = <<>>
    THEN [s EXCEPT !.showing = FALSE, !.popup = NoPopup]
    ELSE [queue |-> Tail(s.queue), showing |-> TRUE,
          popup |-> [alert |-> Head(s.queue), sticky |-> FALSE]]

(* Mutant: the newest that wait make room.                                 *)
TrimmedAtEnd(q) == SubSeq(q, 1, QueueMax - 1)

Trimmed(q) == SubSeq(q, Len(q) - QueueMax + 2, Len(q))

Enqueue(s, n) ==
    LET q == IF Len(s.queue) >= QueueMax THEN Trimmed(s.queue) ELSE s.queue
        full == [s EXCEPT !.queue = Append(q, n)]
    IN IF s.showing THEN full ELSE ShowNext(full)

Interesting(n) == raised[n] # "quiet"

(* on_line for one alert after the other: those worth showing are queued.  *)
EnqueueAll(s, ns) ==
    LET after[i \in 0..Len(ns)] ==
            IF i = 0 THEN s
            ELSE IF Interesting(ns[i]) THEN Enqueue(after[i - 1], ns[i]) ELSE after[i - 1]
    IN after[Len(ns)]

(* What a step makes of the alerts it read or moved: history only.         *)
FateIn(s, read, n) ==
    IF n = s.popup.alert THEN "shown"
    ELSE IF n \in Range(s.queue) THEN "queued"
    ELSE IF n \in Range(read) /\ raised[n] = "quiet" THEN "quiet"
    ELSE IF n \in Range(read) \/ fate[n] = "queued" THEN "pushed out"
    ELSE fate[n]

Display(s, read) == /\ screen' = s
                    /\ fate' = [n \in Ids |-> FateIn(s, read, n)]

----------------------------------------------------------------------------
(* The connection.                                                         *)

(* Mutant: no retry is scheduled.                                          *)
DisconnectedForGood == /\ link' = "none" /\ source' = FALSE
                       /\ inbox' = <<>> /\ outbox' = <<>>
                       /\ UNCHANGED retry

(* disconnect, and schedule_retry unless one is scheduled already.         *)
Disconnected == /\ link' = "none" /\ source' = FALSE
                /\ inbox' = <<>> /\ outbox' = <<>>
                /\ retry' = TRUE

(* The requests the daemon had not read when the connection ended.         *)
Lost == [n \in Ids |-> IF n \in Range(outbox) THEN "lost" ELSE asks[n]]

(* connect_now: the daemon may be away, or go away before the subscription *)
(* is written.                                                             *)
ConnectNow ==
    \/ /\ daemon
       /\ link' = "open" /\ source' = TRUE /\ retry' = FALSE
       /\ inbox' = <<>> /\ outbox' = <<>>
       /\ UNCHANGED <<daemon, stops>>
    \/ /\ daemon => stops < MaxStops
       /\ stops' = IF daemon THEN stops + 1 ELSE stops
       /\ daemon' = FALSE
       /\ Disconnected

Activate == /\ mode = "idle"
            /\ mode' = "live"
            /\ ConnectNow
            /\ UNCHANGED <<raised, screen, fate, askVars>>

(* --demo: one popup of our own and no daemon.                             *)
ActivateDemo == /\ mode = "idle"
                /\ mode' = "demo"
                /\ screen' = ShowNext([screen EXCEPT !.queue = <<1>>])
                /\ UNCHANGED <<worldVars, linkVars, fate, askVars>>

OnRetry == /\ retry
           /\ ConnectNow
           /\ UNCHANGED <<raised, mode, screen, fate, askVars>>

(* A hang-up is looked at first: what the daemon wrote before it closed,   *)
(* and the agent has not read, goes with the connection.                   *)
OnHangup == /\ source
            /\ link = "hup"
            /\ Disconnected
            /\ fate' = [n \in Ids |-> IF n \in Range(inbox) THEN "discarded" ELSE fate[n]]
            /\ UNCHANGED <<worldVars, mode, screen, askVars>>

OnReadable == /\ source
              /\ link = "open"
              /\ inbox # <<>> /\ Len(inbox) <= FillMax + 1
              /\ Display(EnqueueAll(screen, inbox), inbox)
              /\ inbox' = <<>>
              /\ UNCHANGED <<worldVars, mode, link, outbox, source, retry, askVars>>

(* More waits than fill will buffer: the lines it has are handled, what it *)
(* read last is dropped, and the connection with it.                       *)
OnFlooded == LET read == SubSeq(inbox, 1, FillMax + 1)
                 shown == EnqueueAll(screen, read)
             IN /\ source
                /\ link = "open"
                /\ Len(inbox) > FillMax + 1
                /\ screen' = shown
                /\ fate' = [n \in Ids |-> IF n \in Range(inbox) \ Range(read) THEN "discarded"
                                          ELSE FateIn(shown, read, n)]
                /\ Disconnected
                /\ asks' = Lost
                /\ UNCHANGED <<worldVars, mode, handled>>

OnSocketReady == OnHangup \/ OnReadable \/ OnFlooded

----------------------------------------------------------------------------
(* The popup window: on_destroy shows the next alert, or lets a demo end.  *)

Kind(n) == IF mode = "demo" THEN "normal" ELSE raised[n]

Destroyed ==
    /\ IF mode = "live" THEN Display(ShowNext(screen), <<>>)
                        ELSE screen' = ShowNext(screen) /\ UNCHANGED fate
    /\ mode' = IF mode = "demo" /\ screen.queue = <<>> THEN "quit" ELSE mode
    /\ UNCHANGED <<worldVars, linkVars, askVars>>

OnScreen == screen.popup # NoPopup

(* The close button, or Escape.                                            *)
Dismiss == OnScreen /\ Destroyed

(* on_tick, once the delay is over.                                        *)
AutoDismiss == /\ OnScreen
               /\ AutoClose
               /\ ~screen.popup.sticky
               /\ Kind(screen.popup.alert) # "critical"
               /\ Destroyed

(* send_exclude: nothing is sent without a connection, and the write fails *)
(* on one the daemon has closed; the popup confirms in any case.           *)
SendExclude(n) ==
    IF link = "open"
    THEN outbox' = Append(outbox, n) /\ asks' = [asks EXCEPT ![n] = "sent"]
    ELSE asks' = [asks EXCEPT ![n] = "nowhere"] /\ UNCHANGED outbox

(* Mutant: the button stays sensitive.                                     *)
ExcludeAgain == /\ OnScreen
                /\ Len(outbox) < 2
                /\ SendExclude(screen.popup.alert)
                /\ screen' = [screen EXCEPT !.popup.sticky = TRUE]
                /\ UNCHANGED <<worldVars, mode, link, inbox, source, retry, fate, handled>>

(* "Manage Exclusions": once per popup, which then stops counting down.    *)
ExcludeClicked == /\ OnScreen
                  /\ ~screen.popup.sticky
                  /\ SendExclude(screen.popup.alert)
                  /\ screen' = [screen EXCEPT !.popup.sticky = TRUE]
                  /\ UNCHANGED <<worldVars, mode, link, inbox, source, retry, fate, handled>>

----------------------------------------------------------------------------
(* The daemon.                                                             *)

DaemonStarts == /\ ~daemon
                /\ daemon' = TRUE
                /\ UNCHANGED <<mode, stops, linkVars, screen, raised, fate, askVars>>

(* The daemon reads a request and answers; the agent only logs a refusal.  *)
HandleRequest == /\ link = "open"
                 /\ outbox # <<>>
                 /\ asks' = [asks EXCEPT ![Head(outbox)] = "handled"]
                 /\ handled' = Append(handled, Head(outbox))
                 /\ outbox' = Tail(outbox)
                 /\ UNCHANGED <<mode, worldVars, link, inbox, source, retry, screen, fate>>

(* It stops, or cuts off this one client.                                  *)
DaemonStops == /\ daemon
               /\ stops < MaxStops
               /\ daemon' \in IF link = "open" THEN BOOLEAN ELSE {FALSE}
               /\ stops' = stops + 1
               /\ link' = IF link = "open" THEN "hup" ELSE link
               /\ outbox' = <<>> /\ asks' = Lost
               /\ UNCHANGED <<mode, inbox, source, retry, screen, raised, fate, handled>>

Raise(kind) ==
    LET n == Len(raised) + 1
    IN /\ daemon
       /\ n <= MaxAlerts
       /\ raised' = Append(raised, kind)
       /\ inbox' = IF link = "open" THEN Append(inbox, n) ELSE inbox
       /\ fate' = [fate EXCEPT ![n] = IF link = "open" THEN "sent" ELSE "missed"]
       /\ UNCHANGED <<mode, daemon, stops, link, outbox, source, retry, screen, askVars>>

User == Dismiss \/ ExcludeClicked
Daemon == DaemonStarts \/ DaemonStops \/ HandleRequest \/ \E kind \in Kinds : Raise(kind)

Next == \/ Activate \/ ActivateDemo \/ OnRetry \/ OnSocketReady \/ AutoDismiss
        \/ User \/ Daemon

Spec == Init /\ [][Next]_vars

(* The main loop dispatches what is ready and what has timed out; nothing  *)
(* is assumed of the user or of the daemon.                                *)
FairSpec == Spec /\ WF_vars(OnSocketReady) /\ WF_vars(OnRetry) /\ WF_vars(AutoDismiss)

----------------------------------------------------------------------------
Accepted == {n \in Ids : fate[n] \in {"queued", "shown", "pushed out"}}

(* A burst costs only old alerts: one is pushed out by QueueMax newer ones *)
(* worth showing, and what waits is in order, behind what was shown.       *)
BurstKeepsNewest ==
    /\ \A n \in Accepted : fate[n] = "pushed out" =>
          Cardinality({m \in Accepted : m > n}) >= QueueMax
    /\ \A n, m \in Ids : fate[n] = "queued" /\ fate[m] = "shown" => m < n

(* A request to exclude the subject of an alert is handled at most once    *)
(* and in the order of the popups, over reconnections too; one that was    *)
(* sent is still on its way or was handled, unless the connection ended.   *)
ExclusionsInOrder ==
    /\ LET all == handled \o outbox IN \A i, j \in DOMAIN all : i < j => all[i] < all[j]
    /\ \A n \in Ids : /\ asks[n] = "sent" <=> n \in Range(outbox)
                      /\ asks[n] = "handled" <=> n \in Range(handled)
                      /\ asks[n] # "no" => fate[n] = "shown" \/ mode # "live"

(* While the daemon is up the agent gets back to it.                       *)
Reconnects == mode = "live" /\ daemon ~> link = "open" \/ ~daemon

OnlyUserCloses == /\ OnScreen
                  /\ screen.popup.sticky \/ Kind(screen.popup.alert) = "critical" \/ ~AutoClose

(* An alert that waits is shown or pushed out in the end, unless a popup   *)
(* that only the user can close stays in front of it for good.             *)
QueueMoves ==
    ([]<>~OnlyUserCloses) =>
        \A n \in Ids : fate[n] = "queued" ~> fate[n] \in {"shown", "pushed out"}

(* "Alerts below Critical dismiss themselves after this long"              *)
(* (popup.hpp:18), "Give the user a moment to read the confirmation before *)
(* it disappears" (popup.cpp:376).                                         *)
DismissesItself ==
    AutoClose => \A n \in Ids :
        OnScreen /\ screen.popup.alert = n /\ Kind(n) # "critical" ~> screen.popup.alert # n

(* "Requested exclusion for ..." (popup.cpp:374): a request that the popup *)
(* confirms was made.                                                      *)
ConfirmedIsRequested == mode = "live" => \A n \in Ids : asks[n] # "nowhere"
=============================================================================
