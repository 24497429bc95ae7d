--------------------------------- MODULE Hiring ---------------------------------
(***************************************************************************)
(* From candidate to employee (backend/app/api/v1/hire.py,                  *)
(* api/v1/auto_onboard.py, api/v1/integrations.py, the agent tools of       *)
(* services/platform_tools_business.py).                                    *)
(*                                                                         *)
(* Three endpoints make a user of a candidate: promote_candidate, the tool  *)
(* promote_to_employee and auto_onboard_candidate.  Each looks for a user   *)
(* with the candidate's email, adds one, marks the candidate as hired and   *)
(* commits; User.email is unique, so of two that overlap one fails as a     *)
(* whole.  Nothing keeps a person from applying twice with one email.  The  *)
(* session writes the stage only when it differs from the one it loaded.    *)
(* Onboarding plans, enrolments and equipment that follow a promotion, and  *)
(* interviews, pools and profile changes, are left out.                     *)
(***************************************************************************)
EXTENDS Integers, FiniteSets

CONSTANTS Candidate, Email, EmailOf, Promotion

Stage == {"applied", "screening", "interview", "offer", "hired", "rejected"}

CONSTANT UsedStage          \* the stages recruiters use in an instance

ASSUME HiringAssumption ==
  /\ EmailOf \in [Candidate -> Email]
  /\ IsFiniteSet(Promotion)
  /\ UsedStage \subseteq Stage

VARIABLES stage,            \* of each candidate
          employed,         \* emails of the table of users
          at,               \* where a promotion is
          whom,             \* the candidate it promotes
          read,             \* the stage it loaded
          others            \* history: users deleted, less those that did not come from here

hiringVars == <<stage, employed, at, whom, read, others>>

Absent == "absent"          \* the candidate has not applied

HiringTypeOK ==
  /\ stage \in [Candidate -> Stage \cup {Absent}]
  /\ employed \in SUBSET Email
  /\ at \in [Promotion -> {"idle", "checked", "done", "refused"}]
  /\ \A p \in Promotion : at[p] # "idle" => whom[p] \in Candidate
  /\ read \in [Promotion -> Stage \cup {Absent}]
  /\ others \in [Email -> Int]

HiringInit ==
  /\ stage = [c \in Candidate |-> Absent]
  /\ employed = {}
  /\ at = [p \in Promotion |-> "idle"]
  /\ whom = [p \in Promotion |-> CHOOSE c \in Candidate : TRUE]
  /\ read = [p \in Promotion |-> Absent]
  /\ others = [e \in Email |-> 0]

(* add_candidate and public_apply_for_job.                                      *)
Apply(c) ==
  /\ stage[c] = Absent
  /\ stage' = [stage EXCEPT ![c] = "applied"]
  /\ UNCHANGED <<employed, at, whom, read, others>>

(* update_candidate_stage, its tool, update_candidate, Zapier's hire: from any   *)
(* stage to any stage, "hired" included, without a user.                        *)
Move(c, s) ==
  /\ stage[c] # Absent
  /\ stage' = [stage EXCEPT ![c] = s]
  /\ UNCHANGED <<employed, at, whom, read, others>>

MayPromote(c, auto) == EmailOf[c] \notin employed /\ (auto => stage[c] = "hired")

(* A promotion up to its query for the email; auto_onboard wants a hired one.    *)
Check(p, c, auto) ==
  /\ at[p] = "idle" /\ stage[c] # Absent
  /\ at' = [at EXCEPT ![p] = IF MayPromote(c, auto) THEN "checked" ELSE "refused"]
  /\ whom' = [whom EXCEPT ![p] = c]
  /\ read' = [read EXCEPT ![p] = stage[c]]
  /\ UNCHANGED <<stage, employed, others>>

(* Mutant: the table of users allows an email twice.                            *)
PromoteTwice(p) ==
  /\ at[p] = "checked"
  /\ at' = [at EXCEPT ![p] = "done"]
  /\ employed' = employed \cup {EmailOf[whom[p]]}
  /\ stage' = IF read[p] = "hired" THEN stage ELSE [stage EXCEPT ![whom[p]] = "hired"]
  /\ read' = [read EXCEPT ![p] = Absent]
  /\ UNCHANGED <<whom, others>>

(* The commit of user and stage.                                                *)
Promote(p) ==
  /\ at[p] = "checked" /\ EmailOf[whom[p]] \notin employed
  /\ at' = [at EXCEPT ![p] = "done"]
  /\ employed' = employed \cup {EmailOf[whom[p]]}
  /\ stage' = IF read[p] = "hired" THEN stage ELSE [stage EXCEPT ![whom[p]] = "hired"]
  /\ read' = [read EXCEPT ![p] = Absent]
  /\ UNCHANGED <<whom, others>>

(* The unique email makes the commit fail: neither user nor stage is kept.       *)
Refuse(p) ==
  /\ at[p] = "checked" /\ EmailOf[whom[p]] \in employed
  /\ at' = [at EXCEPT ![p] = "refused"]
  /\ read' = [read EXCEPT ![p] = Absent]
  /\ UNCHANGED <<stage, employed, whom, others>>

(* create_user, bulk imports and sign-up; the unique email refuses a second user. *)
Enroll(e) ==
  /\ e \notin employed
  /\ employed' = employed \cup {e}
  /\ others' = [others EXCEPT ![e] = @ - 1]
  /\ UNCHANGED <<stage, at, whom, read>>

(* delete_user.                                                                 *)
Delete(e) ==
  /\ e \in employed
  /\ employed' = employed \ {e}
  /\ others' = [others EXCEPT ![e] = @ + 1]
  /\ UNCHANGED <<stage, at, whom, read>>

HiringNext ==
  \/ \E c \in Candidate : Apply(c) \/ \E s \in UsedStage : Move(c, s)
  \/ \E p \in Promotion :
       \/ \E c \in Candidate, auto \in BOOLEAN : Check(p, c, auto)
       \/ Promote(p) \/ Refuse(p)
  \/ \E e \in Email : Enroll(e) \/ Delete(e)

HiringSpec == HiringInit /\ [][HiringNext]_hiringVars

-------------------------------------------------------------------------------
(* Property.                                                                    *)

(* However promotions overlap, and whoever applied twice, the promotions of a     *)
(* person that are answered with success account for the employees of that       *)
(* email, none twice: the check before the insert does not see to it, the unique  *)
(* email at the commit does (hire.py:881-932, models/user.py:13).                 *)
SuccessesAreEmployees ==
  \A e \in Email :
    Cardinality({p \in Promotion : at[p] = "done" /\ EmailOf[whom[p]] = e}) =
      others[e] + (IF e \in employed THEN 1 ELSE 0)
===============================================================================
