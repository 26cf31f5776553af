-------------------------------- MODULE Page ---------------------------------
(***************************************************************************)
(* The page (web/src/App.jsx): which village it shows, while requests are  *)
(* in flight.  No request is ever cancelled and each answer is applied     *)
(* when it comes, so answers arrive in any order, late, or as a failure.   *)
(*                                                                         *)
(* A village's content is its newest capture and the revision of its       *)
(* declared upgrades, which a claim or a cancel moves on.  Snapshots are   *)
(* kept by the name the store gives the village (the file store drops the  *)
(* '#' of its tag), declared upgrades by whatever name the request said.   *)
(* The server is modelled as far as the page sees it: each request is      *)
(* served in one step.  The change log, errors, the spinner and what is    *)
(* only drawn are left out.                                                *)
(***************************************************************************)
EXTENDS Integers, FiniteSets, Bags, BagsExt

CONSTANTS
  Tags,     \* village tags, as the exports say
  Label,    \* the name the store lists each under
  None,     \* no tag (the empty string), no report, nothing to show
  Stored,   \* what the server holds when the page is opened: contents
            \* with the declared upgrades under the village's tag
  Opened,   \* the tags localStorage may hold then
  MaxActs   \* bound on what players do, on requests that fail, and on polls
            \* sent while another is in flight

Names   == Tags \cup {Label[t] : t \in Tags}
Capture == [tag : Tags, cap : Nat]
Content == [tag : Tags, cap : Nat, rev : Nat]
Kinds   == {"load", "poll", "select", "send", "pending", "forget", "refetch", "villages"}
\* A request for a village, the village the page was on when it was sent (of a
\* poll, a claim or a cancel), and its answer: contents of villages, or their
\* names for the list of villages.
Request == [kind : Kinds, tag : Names \cup {None}, on : Tags \cup {None},
            pc : {"asked", "answered"}, ok : BOOLEAN,
            body : (SUBSET Content) \cup (SUBSET Names), contradicted : BOOLEAN]

ASSUME PageAssumption ==
  /\ None \notin Names
  /\ \A t \in Tags : Label[t] \in Tags => Label[t] = t
  /\ \A t, u \in Tags : Label[t] = Label[u] => t = u
  /\ MaxActs \in Nat
  /\ Opened \subseteq Tags \cup {None}
  /\ Stored \subseteq Content /\ \A c, d \in Stored : c.tag = d.tag => c = d

VARIABLES
  server,      \* the newest capture of each village stored
  declared,    \* the revision of the declared upgrades, by name
  clock,       \* captures so far
  net,         \* the requests in flight, a bag
  tag,         \* the village the page is on (state and localStorage)
  report,      \* the report shown
  mismatches,  \* the village the mismatches shown are about
  villages,    \* the options of the village picker
  late,        \* history: the last report applied was of a village that was
               \* no longer stored when it came
  untold,      \* history: villages whose forget was served and failed to be
               \* answered, or not stored when the page was opened on them
  acts         \* what MaxActs bounds, so far

page == <<tag, report, mismatches, villages, late, untold>>
stored == <<server, declared, clock>>
vars == <<stored, net, page, acts>>

Asked(kind, t, on) == [kind |-> kind, tag |-> t, on |-> on, pc |-> "asked",
                       ok |-> TRUE, body |-> {}, contradicted |-> FALSE]
Ask(kind, t) == Asked(kind, t, IF kind \in {"poll", "pending"} THEN tag ELSE None)
ListVillages == Asked("villages", None, None)

Init ==
  /\ server = {[tag |-> c.tag, cap |-> c.cap] : c \in Stored}
  /\ declared = [n \in Names |-> IF \E c \in Stored : c.tag = n
                                THEN (CHOOSE c \in Stored : c.tag = n).rev ELSE 0]
  /\ clock \in {0} \cup {c.cap : c \in server}
  /\ \A c \in server : c.cap <= clock
  /\ tag \in Opened
  /\ net = SetToBag({Ask("load", tag), ListVillages})
  /\ report = None
  /\ mismatches = None
  /\ villages = {}
  /\ late = FALSE
  /\ untold = {tag} \ ({c.tag : c \in server} \cup {None})
  /\ acts = 0

-----------------------------------------------------------------------------
(* The server.                                                             *)

\* Villages, and resolveTag: the village of a name, or without one that of
\* the newest capture under the name the store gives it.
Kept(n)     == {c \in server : n \in {c.tag, Label[c.tag]}}
Resolved(n) == IF n # None THEN {n}
               ELSE {Label[c.tag] : c \in {c \in server : \A d \in server : d.cap <= c.cap}}

\* buildReportResponse: its newest capture with what is declared by that name.
Contents(n) == {[tag |-> c.tag, cap |-> c.cap, rev |-> declared[n]] : c \in Kept(n)}
Reported(n) == UNION {Contents(m) : m \in Resolved(n)}

Answer(m, body) == net' = BagAdd(BagRemove(net, m), [m EXCEPT !.pc = "answered", !.body = body])

\* A read: a report or the list of villages.
ServeRead(m) ==
  /\ m.kind \in {"load", "poll", "select", "refetch", "villages"}
  /\ Answer(m, IF m.kind = "villages" THEN {Label[c.tag] : c \in server} ELSE Reported(m.tag))
  /\ UNCHANGED stored

\* Fault: the capture is added beside the village's last one.
CapturedFault(t) ==
  /\ clock' = clock + 1
  /\ server' = server \cup {[tag |-> t, cap |-> clock']}
  /\ declared' = [declared EXCEPT ![t] = 0]

\* A new capture of village t, which clears what is declared by its tag.
Captured(t) ==
  /\ clock' = clock + 1
  /\ server' = {c \in server : c.tag # t} \cup {[tag |-> t, cap |-> clock']}
  /\ declared' = [declared EXCEPT ![t] = 0]

\* An upload, which may contradict what was declared; answered with its own
\* analysis.
ServeSend(m) ==
  /\ m.kind = "send"
  /\ Captured(m.tag)
  /\ \E b \in BOOLEAN :
       /\ b => Kept(m.tag) # {} /\ declared[m.tag] > 0
       /\ net' = BagAdd(BagRemove(net, m),
            [m EXCEPT !.pc = "answered", !.body = {[tag |-> m.tag, cap |-> clock', rev |-> 0]},
                      !.contradicted = b])

\* A claim or a cancel, answered with a fresh report; refused if there is no
\* such village.
ServePending(m) ==
  /\ m.kind = "pending"
  /\ LET named == {n \in Resolved(m.tag) : Kept(n) # {}}
     IN /\ declared' = [n \in Names |-> IF n \in named THEN declared[n] + 1 ELSE declared[n]]
        /\ Answer(m, UNION {{[c EXCEPT !.rev = @ + 1] : c \in Contents(n)} : n \in named})
  /\ UNCHANGED <<server, clock>>

\* The snapshots go, and what is declared by the name they were forgotten by.
ServeForget(m) ==
  /\ m.kind = "forget"
  /\ server' = server \ Kept(m.tag)
  /\ declared' = [declared EXCEPT ![m.tag] = 0]
  /\ Answer(m, {})
  /\ UNCHANGED clock

Serve(kind) ==
  /\ \E m \in BagToSet(net) :
       /\ m.kind = kind /\ m.pc = "asked"
       /\ ServeRead(m) \/ ServeSend(m) \/ ServePending(m) \/ ServeForget(m)
  /\ UNCHANGED <<page, acts>>

-----------------------------------------------------------------------------
(* Answers on the page.                                                    *)

\* React re-renders with a tag and a report, and the effect keyed on the tag
\* fetches the villages.  (The one that fetches the change log is left out.)
Render(t, r, rest) ==
  /\ tag' = t
  /\ report' = r
  /\ net' = IF t # tag THEN BagAdd(rest, ListVillages) ELSE rest

\* Fault: a report of the capture already shown is taken for nothing new.
ApplyReportFault(m, rest) ==
  IF m.body = {} THEN Render(tag, report, rest) /\ UNCHANGED late
  ELSE \E c \in m.body :
         /\ Render(c.tag, IF report # None /\ <<c.tag, c.cap>> = <<report.tag, report.cap>>
                          THEN report ELSE c, rest)
         /\ late' = (Kept(c.tag) = {})

\* applyReport: nothing for a failure, else the report and its tag.
ApplyReport(m, rest) ==
  IF m.body = {} THEN Render(tag, report, rest) /\ UNCHANGED late
  ELSE \E c \in m.body : Render(c.tag, c, rest) /\ late' = (Kept(c.tag) = {})

\* The first load, a poll, a selection, a claim or a cancel is answered.
AnswerReport(m) ==
  /\ m.kind \in {"load", "poll", "select", "pending"}
  /\ ApplyReport(m, BagRemove(net, m))
  /\ UNCHANGED <<mismatches, villages, untold>>

\* send: an upload is answered; its mismatches replace those shown.
AnswerSend(m) ==
  /\ m.kind = "send"
  /\ ApplyReport(m, BagRemove(net, m))
  /\ mismatches' = IF ~m.ok THEN mismatches
                   ELSE IF m.contradicted THEN m.tag ELSE None
  /\ UNCHANGED <<villages, untold>>

\* forgetVillage after its DELETE: the list is fetched again, the tag is
\* dropped, and the report of whichever village is newest is fetched.
AnswerForget(m) ==
  /\ m.kind = "forget"
  /\ IF m.ok THEN Render(None, report, BagRemove(net, m) (+)
                    SetToBag({ListVillages, Asked("refetch", None, None)}))
     ELSE Render(tag, report, BagRemove(net, m))
  /\ untold' = IF m.ok \/ Kept(m.tag) # {} THEN untold \ {m.tag} ELSE untold \cup {m.tag}
  /\ UNCHANGED <<mismatches, villages, late>>

\* Fault: no village left, and the forgotten one stays on the page.
AnswerRefetchFault(m) ==
  /\ m.kind = "refetch"
  /\ ApplyReport(m, BagRemove(net, m))
  /\ UNCHANGED <<mismatches, villages, untold>>

\* forgetVillage's last step: that report, or none.
AnswerRefetch(m) ==
  /\ m.kind = "refetch"
  /\ IF m.body = {} THEN Render(tag, None, BagRemove(net, m)) /\ UNCHANGED late
     ELSE ApplyReport(m, BagRemove(net, m))
  /\ UNCHANGED <<mismatches, villages, untold>>

AnswerVillages(m) ==
  /\ m.kind = "villages"
  /\ net' = BagRemove(net, m)
  /\ villages' = IF m.ok THEN m.body ELSE villages
  /\ UNCHANGED <<tag, report, mismatches, late, untold>>

Deliver(kind) ==
  /\ \E m \in BagToSet(net) :
       /\ m.kind = kind /\ m.pc = "answered"
       /\ \/ AnswerReport(m) \/ AnswerSend(m) \/ AnswerForget(m)
          \/ AnswerRefetch(m) \/ AnswerVillages(m)
  /\ UNCHANGED <<stored, acts>>

-----------------------------------------------------------------------------
(* The clock of the page, the player, and what goes wrong.                 *)

Act == acts < MaxActs /\ acts' = acts + 1

Polling == \E m \in BagToSet(net) : m.kind = "poll"

\* Fault: the poll goes on for the village the page was opened with.
PollFault ==
  /\ IF Polling THEN Act ELSE UNCHANGED acts
  /\ net' = BagAdd(net, Ask("poll", CHOOSE t \in Opened : TRUE))
  /\ UNCHANGED <<stored, page>>

\* Once a minute the report of the current village is fetched, whether or not
\* an earlier poll is in flight still (as often as the bound allows).
Poll ==
  /\ IF Polling THEN Act ELSE UNCHANGED acts
  /\ net' = BagAdd(net, Ask("poll", tag))
  /\ UNCHANGED <<stored, page>>

\* The picker is there with a report and more than one village.
Picker == report # None /\ Cardinality(villages) > 1

SelectVillage(n) ==
  /\ Act
  /\ Picker /\ n \in villages \ {tag}
  /\ mismatches' = None
  /\ net' = BagAdd(net, Ask("select", n))
  /\ UNCHANGED <<stored, tag, report, villages, late, untold>>

ForgetVillage ==
  /\ Act
  /\ Picker /\ tag # None
  /\ net' = BagAdd(net, Ask("forget", tag))
  /\ UNCHANGED <<stored, page>>

Send(t) ==
  /\ Act
  /\ net' = BagAdd(net, Ask("send", t))
  /\ UNCHANGED <<stored, page>>

\* buildNow and cancelPending.
BuildNow ==
  /\ Act
  /\ report # None
  /\ net' = BagAdd(net, Ask("pending", tag))
  /\ UNCHANGED <<stored, page>>

\* A village is uploaded from another tab or device.
Elsewhere(t) ==
  /\ Act
  /\ Captured(t)
  /\ UNCHANGED <<net, page>>

\* A request fails, before or after it was served.
Fail ==
  /\ Act
  /\ \E m \in BagToSet(net) :
       /\ m.ok
       /\ net' = BagAdd(BagRemove(net, m),
            [m EXCEPT !.pc = "answered", !.ok = FALSE, !.body = {}, !.contradicted = FALSE])
  /\ UNCHANGED <<stored, page>>

Next ==
  \/ \E kind \in Kinds : Serve(kind) \/ Deliver(kind)
  \/ Poll
  \/ \E n \in Names : SelectVillage(n)
  \/ \E t \in Tags : Send(t) \/ Elsewhere(t)
  \/ ForgetVillage
  \/ BuildNow
  \/ Fail

\* The interval fires, and polls, though not each of them, are served and
\* answered, or fail.  Nothing is assumed of players or of other requests,
\* which may stay in flight for good.
Fairness == WF_vars(Poll) /\ WF_vars(Serve("poll")) /\ WF_vars(Deliver("poll"))

Spec == Init /\ [][Next]_vars /\ Fairness

-----------------------------------------------------------------------------
\* The state of the page and the requests in flight are of their types, and
\* a village is stored once.
TypeOK ==
  /\ server \subseteq Capture
  /\ declared \in [Names -> Nat]
  /\ \A c, d \in server : c.tag = d.tag => c = d
  /\ clock \in Nat
  /\ IsABag(net) /\ BagToSet(net) \subseteq Request
  /\ tag \in Tags \cup {None}
  /\ report \in Content \cup {None}
  /\ mismatches \in Tags \cup {None}
  /\ villages \subseteq Names
  /\ late \in BOOLEAN /\ untold \subseteq Tags
  /\ acts \in 0..MaxActs

\* The report on the page is that of the village the page is on; between a
\* forget and the fetch that follows it the page may be on none.
ShownIsNamed ==
  report # None => \/ tag = report.tag
                   \/ tag = None /\ \E m \in BagToSet(net) : m.kind = "refetch"

\* How many requests m there are in the bag N.
Copies(m, N) == IF m \in BagToSet(N) THEN N[m] ELSE 0

\* A village chosen stays chosen: the answer to a minute's poll, to a claim or
\* to a cancel takes the page to another village only if the page had already
\* left the one it was on when the request was sent.
PollKeepsVillage ==
  [][tag' # tag =>
       \A m \in BagToSet(net) :
         /\ m.kind \in {"poll", "pending"} /\ m.on # None
         /\ Copies(m, net') < Copies(m, net)
         => m.on # tag]_vars

\* A forget of t is on its way or its answer is.
Forgetting(t) == \E m \in BagToSet(net) : m.kind = "forget" /\ m.tag = t

\* Whatever was switched, uploaded, claimed, forgotten, overtaken or lost, in
\* the end the page is on a stored village if there is any, and shows its newest
\* capture with what is declared by its tag (a report fetched by the store's
\* name lacks that until the next poll).  It stays on a village that is not
\* stored only for one of three reasons: an answer sent before the village was
\* forgotten came after that and put the page there, a forget's own answer
\* failed or has not come, or the page was opened on it.
PageCatchesUp ==
  <>[] \/ tag = None /\ server = {}
       \/ tag # None /\ report \in Contents(tag)
       \/ /\ tag # None /\ Kept(tag) = {}
          /\ late \/ tag \in untold \/ Forgetting(tag)
=============================================================================
