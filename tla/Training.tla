-------------------------------- MODULE Training --------------------------------
(***************************************************************************)
(* One enrollment in a course and its FUNDAE validation                     *)
(* (backend/app/api/v1/training.py, services/scorm_xapi.py, the agents'     *)
(* tool_validate_fundae of services/platform_tools_business.py).            *)
(*                                                                         *)
(* commit_scorm_state commits what the player sends, then the verdict of    *)
(* the rules on the enrollment as its session has it.  The administrator's  *)
(* validation stores a verdict only, an xAPI statement an enrollment only,  *)
(* and the tool a verdict, by rules of its own, where there is none.        *)
(* A session keeps what it loaded over its commits and writes the columns   *)
(* that differ from it; a second row of the validation fails on its unique  *)
(* enrollment_id.                                                           *)
(*                                                                         *)
(* Of the four columns the rules read it is kept how far they reach: 0, 1   *)
(* where the rules ask no more, 2 for a score the tool accepts as well.     *)
(* Progress and score are Numeric(5, 2), and a player sends them as floats: *)
(* what is stored may be rounded up to a limit that the value the session   *)
(* goes on with does not reach.  How far the time reaches depends on the    *)
(* course, which an administrator may edit.  The course is one FUNDAE       *)
(* applies to.  Enrolling, roles and the export are left out.               *)
(***************************************************************************)
EXTENDS Integers

Rule == {"duration", "progress", "test", "survey"}

CONSTANTS Session,          \* requests, statements and tool calls
          Reported          \* the rules whose columns players report in an instance

ASSUME TrainingAssumption == Reported \subseteq Rule

VARIABLES enrollment,       \* the committed row
          verdict,          \* the committed validation, or Unjudged
          place,            \* where a session is
          mine,             \* the enrollment as a session has it
          unsaved,          \* the columns it has yet to write
          met,              \* the validation it found
          crossed,          \* history: another session committed since this one loaded
          fresh,            \* history: the last commit was a verdict, and crossed no other
          raised,           \* history: the columns a session's commit rounded up to a limit
          excused           \* history: those of the session that gave the verdict

sessionVars == <<place, mine, unsaved, met, crossed, raised>>
trainingVars == <<enrollment, verdict, fresh, excused, sessionVars>>

Level(f) == IF f = "test" THEN 0 .. 2 ELSE 0 .. 1

(* The columns of type Numeric(5, 2).                                           *)
Rounded == {"progress", "test"}

Enrollment == {r \in [Rule -> 0 .. 2] : \A f \in Rule : r[f] \in Level(f)}

Mark == Rule \cup {"overall"}

Unjudged == [c \in Mark |-> "none"]

Verdict == [Mark -> {"valid", "invalid"}]

Enrolled == [f \in Rule |-> 0]

TrainingTypeOK ==
  /\ enrollment \in Enrollment
  /\ verdict \in Verdict \cup {Unjudged}
  /\ place \in [Session -> {"idle", "scorm", "xapi", "judge", "tool", "judged", "tooled", "ended"}]
  /\ mine \in [Session -> Enrollment]
  /\ unsaved \in [Session -> SUBSET Rule]
  /\ met \in [Session -> Verdict \cup {Unjudged}]
  /\ crossed \in [Session -> BOOLEAN]
  /\ fresh \in BOOLEAN
  /\ raised \in [Session -> SUBSET Rounded] /\ excused \subseteq Rounded

TrainingInit ==
  /\ enrollment = Enrolled
  /\ verdict = Unjudged
  /\ place = [s \in Session |-> "idle"]
  /\ mine = [s \in Session |-> Enrolled]
  /\ unsaved = [s \in Session |-> {}]
  /\ met = [s \in Session |-> Unjudged]
  /\ crossed = [s \in Session |-> FALSE]
  /\ fresh = FALSE
  /\ raised = [s \in Session |-> {}] /\ excused = {}

(* All four columns must be met.                                                *)
Judged(ok) ==
  [c \in Mark |->
     IF (c = "overall" /\ ok = Rule) \/ c \in ok THEN "valid" ELSE "invalid"]

(* run_fundae_validation_logic.                                                 *)
Judgement(row) == Judged({f \in Rule : row[f] >= 1})

(* The tool wants fifty points where the rules want five, and no survey.         *)
ToolJudgement(row) ==
  Judged({f \in Rule : f = "survey" \/ row[f] >= IF f = "test" THEN 2 ELSE 1})

Forget(s) ==
  /\ mine' = [mine EXCEPT ![s] = Enrolled]
  /\ unsaved' = [unsaved EXCEPT ![s] = {}]
  /\ met' = [met EXCEPT ![s] = Unjudged]
  /\ raised' = [raised EXCEPT ![s] = {}]

(* Every other session that is at work has loaded what is no longer current.     *)
Cross(s) ==
  crossed' = [o \in Session |->
                crossed[o] \/ (o # s /\ place[o] \notin {"idle", "ended"})]

(* An xAPI statement completes a course, or sets "in_progress" over "enrolled",  *)
(* and says nothing of the time spent.                                           *)
MayReport(kind, named, row) ==
  LET done == named \cap {"progress", "survey"} IN
  kind = "xapi" =>
    /\ "duration" \notin named
    /\ \/ done = Reported \cap {"progress", "survey"} /\ \A f \in done : row[f] = 1
       \/ done \subseteq {"survey"} /\ \A f \in done : row[f] = 0 /\ enrollment[f] = 0

(* The enrollment is loaded and given the columns that are reported.  A value    *)
(* that differs from the one loaded may still reach the same level.              *)
Report(s, kind, row) ==
  /\ place[s] = "idle"
  /\ \E named \in SUBSET Reported :
       /\ \A f \in Rule \ named : row[f] = enrollment[f]
       /\ MayReport(kind, named, row)
       /\ \E differ \in SUBSET named :
            /\ \A f \in named \ differ : row[f] = enrollment[f]
            /\ unsaved' = [unsaved EXCEPT ![s] = differ]
  /\ place' = [place EXCEPT ![s] = kind]
  /\ mine' = [mine EXCEPT ![s] = row]
  /\ UNCHANGED <<enrollment, verdict, met, crossed, fresh, raised, excused>>

(* validate_fundae_compliance and the tool load the enrollment as it is.         *)
Inspect(s, kind) ==
  /\ place[s] = "idle"
  /\ place' = [place EXCEPT ![s] = kind]
  /\ mine' = [mine EXCEPT ![s] = enrollment]
  /\ UNCHANGED <<enrollment, verdict, unsaved, met, crossed, fresh, raised, excused>>

(* The columns of a player whose stored values may reach further than its own.    *)
MayRaise(s) ==
  IF place[s] = "scorm"
  THEN {f \in unsaved[s] \cap Rounded : mine[s][f] + 1 \in Level(f)} ELSE {}

(* The commit of the enrollment, which rounds; an xAPI statement, whose values are *)
(* rounded already, ends with it.                                                *)
SaveEnrollment(s) ==
  /\ place[s] \in {"scorm", "xapi"}
  /\ \E up \in SUBSET MayRaise(s) :
       /\ enrollment' = [f \in Rule |-> IF f \in up THEN mine[s][f] + 1
                                      ELSE IF f \in unsaved[s] THEN mine[s][f]
                                      ELSE enrollment[f]]
       /\ IF place[s] = "xapi"
          THEN place' = [place EXCEPT ![s] = "ended"] /\ Forget(s)
          ELSE /\ place' = [place EXCEPT ![s] = "judge"]
               /\ raised' = [raised EXCEPT ![s] = up]
               /\ UNCHANGED <<mine, unsaved, met>>
  /\ fresh' = (fresh /\ unsaved[s] = {})
  /\ Cross(s)
  /\ UNCHANGED <<verdict, excused>>

(* update_course sets other hours, on which no verdict follows.  A player's       *)
(* session loads the course after the commit of the enrollment.                  *)
EditCourse ==
  /\ \E d \in Level("duration") : enrollment' = [enrollment EXCEPT !["duration"] = d]
  /\ \E own \in [Session -> Level("duration")] :
       mine' = [s \in Session |->
                  IF place[s] \in {"scorm", "judge"}
                  THEN [mine[s] EXCEPT !["duration"] = own[s]] ELSE mine[s]]
  /\ crossed' = [s \in Session |-> crossed[s] \/ place[s] \notin {"idle", "ended"}]
  /\ fresh' = FALSE
  /\ UNCHANGED <<verdict, place, unsaved, met, raised, excused>>

(* The query for the validation; the tool answers with the one it finds.         *)
FindVerdict(s) ==
  /\ \/ place[s] = "judge" /\ place' = [place EXCEPT ![s] = "judged"]
     \/ place[s] = "tool" /\ verdict = Unjudged /\ place' = [place EXCEPT ![s] = "tooled"]
  /\ met' = [met EXCEPT ![s] = verdict]
  /\ UNCHANGED <<enrollment, verdict, mine, unsaved, crossed, fresh, raised, excused>>

(* Mutant: a validation that is there already is left as it is.                 *)
StoreVerdictOnce(s) ==
  /\ place[s] = "judged"
  /\ verdict' = IF met[s] = Unjudged /\ verdict = Unjudged THEN Judgement(mine[s]) ELSE verdict
  /\ fresh' = ~crossed[s] /\ excused' = raised[s]
  /\ Cross(s)
  /\ place' = [place EXCEPT ![s] = "ended"] /\ Forget(s)
  /\ UNCHANGED enrollment

(* A new validation, or an UPDATE of the columns that differ from those found.   *)
StoreVerdict(s) ==
  /\ place[s] = "judged"
  /\ met[s] = Unjudged => verdict = Unjudged
  /\ verdict' = [c \in Mark |->
       IF Judgement(mine[s])[c] = met[s][c] THEN verdict[c] ELSE Judgement(mine[s])[c]]
  /\ fresh' = ~crossed[s] /\ excused' = raised[s]
  /\ Cross(s)
  /\ place' = [place EXCEPT ![s] = "ended"] /\ Forget(s)
  /\ UNCHANGED enrollment

StoreToolVerdict(s) ==
  /\ place[s] = "tooled" /\ verdict = Unjudged
  /\ verdict' = ToolJudgement(mine[s])
  /\ fresh' = FALSE
  /\ Cross(s)
  /\ place' = [place EXCEPT ![s] = "ended"] /\ Forget(s)
  /\ UNCHANGED <<enrollment, excused>>

(* A session that ends before its next commit: the server dies, an exception, a  *)
(* validation that has become another session's, or the tool's answer.           *)
Leave(s) ==
  /\ place[s] \notin {"idle", "ended"}
  /\ place' = [place EXCEPT ![s] = "ended"] /\ Forget(s)
  /\ UNCHANGED <<enrollment, verdict, crossed, fresh, excused>>

TrainingNext ==
  \/ EditCourse
  \/ \E s \in Session :
       \/ \E kind \in {"scorm", "xapi"}, row \in Enrollment : Report(s, kind, row)
       \/ \E kind \in {"judge", "tool"} : Inspect(s, kind)
       \/ SaveEnrollment(s) \/ FindVerdict(s) \/ StoreVerdict(s) \/ StoreToolVerdict(s)
       \/ Leave(s)

TrainingSpec == TrainingInit /\ [][TrainingNext]_trainingVars

-------------------------------------------------------------------------------
(* Property.                                                                    *)

(* After a verdict no other session's commit crossed, and until the enrollment or *)
(* the course is written again, no mark is valid that the rules do not meet on    *)
(* what is stored, and none is missing, whatever verdicts overlapped, came from   *)
(* the tool or were lost before: the next one heals them.  Only a progress or a   *)
(* score that the judging request itself has had rounded up to the limit may be   *)
(* judged too low (training.py:118-252).                                         *)
VerdictCurrent ==
  fresh =>
    LET reached == {f \in Rule : enrollment[f] >= 1} IN
    \E missed \in SUBSET (excused \cap reached) : verdict = Judged(reached \ missed)
===============================================================================
