------------------------------- MODULE Checklists -------------------------------
(***************************************************************************)
(* The onboarding checklists of one employee and one template: the          *)
(* endpoints of backend/app/api/v1/workflows.py and the agents' tools of    *)
(* services/agent_workflow_bridge.py.                                       *)
(*                                                                         *)
(* The steps of a checklist are one JSON column.  A request reads all of    *)
(* it, changes one step and writes all of it back at its commit, whatever   *)
(* was committed in between; the status is written only when it changes.    *)
(* The tool changes the dictionary it loaded in place: what it assigns is   *)
(* equal to what SQLAlchemy remembers as loaded, so the column is not       *)
(* written at all, and the tick it answers with success is nowhere but in   *)
(* that dictionary, which a later call of the same session may still find.  *)
(* Roles, notifications and the times of a step are left out.               *)
(***************************************************************************)
EXTENDS Integers, Sequences

CONSTANTS Step,             \* the steps of the template
          Visit,            \* the requests and tool calls open at the same time
          MaxLists          \* bound on the checklists started

ASSUME ChecklistAssumption == Step # {} /\ MaxLists \in Nat

VARIABLES lists,            \* the checklists in the order they were created
          visit,            \* what a request is about to do, and what it has read
          asked,            \* history: the steps ticked by what was answered with success
          told,             \* history: the steps a tool has answered are completed
          torn,             \* history: checklists two toggles of which overlapped
          byAgent           \* history: checklists a tool found complete

listVars == <<lists, visit, asked, told, torn, byAgent>>

Checklist == [status : {"in_progress", "completed"}, ticked : SUBSET Step]

Away == [what |-> "away"]

(* A toggle is stale once another one of its checklist was committed; "kept" is   *)
(* a session between two tool calls that still holds the dictionary it changed.   *)
Visits ==
  {Away} \cup [what : {"start"}]
    \cup [what : {"toggle"}, list : 1 .. MaxLists, step : Step, saw : SUBSET Step,
          stale : BOOLEAN]
    \cup [what : {"mark"}, list : 1 .. MaxLists, step : Step, saw : SUBSET Step]
    \cup [what : {"kept"}, list : 1 .. MaxLists, saw : SUBSET Step]

ListTypeOK ==
  /\ lists \in Seq(Checklist) /\ Len(lists) <= MaxLists
  /\ visit \in [Visit -> Visits]
  /\ asked \in [1 .. MaxLists -> SUBSET Step] /\ told \in [1 .. MaxLists -> SUBSET Step]
  /\ torn \subseteq 1 .. MaxLists /\ byAgent \subseteq 1 .. MaxLists

ListInit ==
  /\ lists = <<>>
  /\ visit = [q \in Visit |-> Away]
  /\ asked = [w \in 1 .. MaxLists |-> {}] /\ told = [w \in 1 .. MaxLists |-> {}]
  /\ torn = {} /\ byAgent = {}

Active == {w \in DOMAIN lists : lists[w].status = "in_progress"}

(* A new checklist, nothing ticked.                                             *)
Started == Append(lists, [status |-> "in_progress", ticked |-> {}])

(* assign_workflow_to_user looks for no other.                                  *)
Assign ==
  /\ Len(lists) < MaxLists
  /\ lists' = Started
  /\ UNCHANGED <<visit, asked, told, torn, byAgent>>

(* trigger_workflow: the user must have no active one when it looks ...          *)
LookForActive(q) ==
  /\ visit[q] = Away /\ Active = {}
  /\ visit' = [visit EXCEPT ![q] = [what |-> "start"]]
  /\ UNCHANGED <<lists, asked, told, torn, byAgent>>

(* ... and starts one.                                                          *)
Trigger(q) ==
  /\ visit[q].what = "start" /\ Len(lists) < MaxLists
  /\ lists' = Started
  /\ visit' = [visit EXCEPT ![q] = Away]
  /\ UNCHANGED <<asked, told, torn, byAgent>>

(* Mutant: the newest one, completed or not.                                    *)
NewestOfAll(w) == w = Len(lists)

(* The checklist toggle_step works on: the newest of the active ones.           *)
Newest(w) == w \in Active /\ \A v \in Active : v <= w

(* toggle_step up to its second query.                                          *)
LoadList(q, w, s) ==
  /\ visit[q] = Away /\ w \in DOMAIN lists /\ Newest(w)
  /\ visit' = [visit EXCEPT ![q] =
       [what |-> "toggle", list |-> w, step |-> s, saw |-> lists[w].ticked, stale |-> FALSE]]
  /\ UNCHANGED <<lists, asked, told, torn, byAgent>>

(* The step is ticked, or unticked.                                             *)
Toggled(ticked, s) == IF s \in ticked THEN ticked \ {s} ELSE ticked \cup {s}

(* Its commit; when nothing is left to do the checklist is completed.            *)
Toggle(q) ==
  LET w == visit[q].list
      ticked == Toggled(visit[q].saw, visit[q].step)
  IN
  /\ visit[q].what = "toggle"
  /\ lists' = [lists EXCEPT ![w].ticked = ticked,
                            ![w].status = IF ticked = Step THEN "completed" ELSE @]
  /\ visit' = [p \in Visit |->
       IF p = q THEN Away
       ELSE IF visit[p].what = "toggle" /\ visit[p].list = w
            THEN [visit[p] EXCEPT !.stale = TRUE] ELSE visit[p]]
  /\ asked' = [asked EXCEPT ![w] = Toggled(@, visit[q].step)]
  /\ torn' = IF visit[q].stale THEN torn \cup {w} ELSE torn
  /\ UNCHANGED <<told, byAgent>>

(* The steps a tool call finds: the committed ones, or the dictionary an earlier  *)
(* call of its session has changed.                                              *)
Found(q, w) ==
  {lists[w].ticked}
    \cup IF visit[q].what = "kept" /\ visit[q].list = w THEN {visit[q].saw} ELSE {}

(* complete_workflow_step takes any checklist, by its id, ...                    *)
LoadStep(q, w, s) ==
  /\ visit[q].what \in {"away", "kept"} /\ w \in DOMAIN lists
  /\ \E saw \in Found(q, w) :
       visit' = [visit EXCEPT ![q] = [what |-> "mark", list |-> w, step |-> s, saw |-> saw]]
  /\ UNCHANGED <<lists, asked, told, torn, byAgent>>

(* ... and writes at most the status: the steps compare equal to those loaded.   *)
(* It answers that the step is completed.                                        *)
MarkStep(q) ==
  LET w == visit[q].list
      marked == visit[q].saw \cup {visit[q].step}
  IN
  /\ visit[q].what = "mark"
  /\ lists' = [lists EXCEPT ![w].status = IF marked = Step THEN "completed" ELSE @]
  /\ byAgent' = IF marked = Step THEN byAgent \cup {w} ELSE byAgent
  /\ asked' = [asked EXCEPT ![w] = @ \cup {visit[q].step}]
  /\ told' = [told EXCEPT ![w] = @ \cup {visit[q].step}]
  /\ \E v \in {Away, [what |-> "kept", list |-> w, saw |-> marked]} :
       visit' = [visit EXCEPT ![q] = v]
  /\ UNCHANGED torn

ListNext ==
  \/ Assign
  \/ \E q \in Visit :
       \/ LookForActive(q) \/ Trigger(q)
       \/ \E w \in 1 .. MaxLists, s \in Step : LoadList(q, w, s) \/ LoadStep(q, w, s)
       \/ Toggle(q) \/ MarkStep(q)

ListSpec == ListInit /\ [][ListNext]_listVars

-------------------------------------------------------------------------------
(* Properties.                                                                  *)

(* Unless two toggles of it overlapped, a checklist shows of every step what the   *)
(* last answer said, except of the steps a tool answered for: their ticks may be   *)
(* missing, though nothing overlapped (agent_workflow_bridge.py:125-140).  And one *)
(* that is completed has every step ticked for good, unless a tool completed it    *)
(* (workflows.py:204-268).                                                        *)
TicksKept ==
  \A w \in DOMAIN lists : w \notin torn =>
    /\ \A s \in Step \ told[w] : s \in lists[w].ticked <=> s \in asked[w]
    /\ lists[w].status = "completed" /\ w \notin byAgent => lists[w].ticked = Step
===============================================================================
