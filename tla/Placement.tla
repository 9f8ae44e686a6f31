----------------------------- MODULE Placement -----------------------------
(***************************************************************************)
(* Admission, placement and office appointment.                            *)
(*                                                                         *)
(* One action per operation of the organization services.  Every handler   *)
(* runs in one database transaction that commits only when the handler     *)
(* returns, so a request that raises leaves no trace: its refusal is the   *)
(* action being disabled.  Requests are serialised here; the interleaving  *)
(* of transactions is a separate concern.                                  *)
(*                                                                         *)
(* A membership row is unique per (account, department), so the table is   *)
(* the function office : account x department -> role, NoOffice meaning    *)
(* no row; primary[u] is the set of departments whose row is flagged       *)
(* is_primary, and older[u] orders u's rows by created_at.  The rows       *)
(* behind the offices, their permissions and scope, are edited from the    *)
(* console and written again at a start (how such edits overlap is Roles). *)
(* Roles without an office key (custom permission sets) can never be       *)
(* placed - assert_may_place refuses them - and are left out.              *)
(*                                                                         *)
(* "Slip" marks a plausible mistake in the definition after it, as in      *)
(* AppointmentRules.                                                       *)
(***************************************************************************)
EXTENDS AppointmentRules, FiniteSets

CONSTANTS
  Accounts,        \* every person who ever signs up
  Founder,         \* the account that exists at the start
  FounderDept,     \* its department and office: the bootstrap administrator,
  FounderOffice,   \* or an officer once the administrator has stepped out
  Applicants,      \* accounts whose application is already waiting at the start
  Departments,     \* department slugs
  Offices,         \* role keys in the catalog
  RequestInputs,   \* what an application names: slugs, or anything that is none
  StatusInputs,    \* statuses an administrator sets on an account
  Retirable,       \* departments an administrator retires and restores
  RoleInputs,      \* RoleInputs[x]: the rows people try to write for office x
  NoOffice         \* no membership row

Statuses == {"pending_verification", "pending_approval", "active", "suspended", "rejected"}
Unregistered == "unregistered"

\* What the evaluator reads of a role: its permissions, and whether they reach every department.
RoleRow == [permissions : SUBSET Permissions, organization : BOOLEAN]

ASSUME PlacementAssumption ==
  /\ Founder \in Accounts
  /\ Applicants \subseteq Accounts \ {Founder}
  /\ FounderDept \in Departments
  /\ FounderOffice \in Offices
  /\ Offices \subseteq OfficeKeys
  /\ Member \in Offices
  /\ NoOffice \notin OfficeKeys
  /\ RequestInputs # {}
  /\ StatusInputs \subseteq Statuses
  /\ Retirable \subseteq Departments
  /\ RoleInputs \in [Offices -> SUBSET RoleRow]
  /\ IsFiniteSet(Accounts)

VARIABLES
  status,      \* UserAccount.status, or Unregistered
  verified,    \* email_verified_at is set
  requested,   \* requested_department_slug (meaningless while unregistered)
  office,      \* role of the membership row of (account, department)
  primary,     \* departments whose row is flagged is_primary
  older,       \* <<d, e>> : the row in d was created before the row in e
  open,        \* departments with is_active
  roles        \* the role row of each office

vars == <<status, verified, requested, office, primary, older, open, roles>>
membershipVars == <<office, primary, older>>
accountVars == <<status, verified, requested>>

TypeOK ==
  /\ status \in [Accounts -> Statuses \cup {Unregistered}]
  /\ verified \in [Accounts -> BOOLEAN]
  /\ requested \in [Accounts -> RequestInputs]
  /\ office \in [Accounts -> [Departments -> Offices \cup {NoOffice}]]
  /\ primary \in [Accounts -> SUBSET Departments]
  /\ older \in [Accounts -> SUBSET (Departments \X Departments)]
  /\ open \in SUBSET Departments
  /\ roles \in [Offices -> RoleRow]

PlacedIn(u) == {d \in Departments : office[u][d] # NoOffice}
Holders(d, o) == {u \in Accounts : office[u][d] = o}

\* build_context: the snapshot every handler authorises against.
Context(u) ==
  [user |-> u,
   active |-> status[u] = "active",
   held |-> {[dept |-> d, office |-> office[u][d],
              permissions |-> roles[office[u][d]].permissions,
              organization |-> roles[office[u][d]].organization] : d \in PlacedIn(u) \cap open}]

\* The rows as a start writes them.
Templates == [x \in Offices |-> Template(x)]

(***************************************************************************)
(* The bootstrap administrator (or the officer the platform was handed     *)
(* over to) is placed; applicants have confirmed their mailbox.            *)
(***************************************************************************)
Init ==
  /\ status = [u \in Accounts |->
       CASE u = Founder -> "active"
         [] u \in Applicants -> "pending_approval"
         [] OTHER -> Unregistered]
  /\ verified = [u \in Accounts |-> u \in Applicants \/ (u = Founder /\ FounderOffice # Administrator)]
  /\ requested \in [Accounts -> RequestInputs]
  /\ \A u \in Accounts \ Applicants : requested[u] = CHOOSE d \in RequestInputs : TRUE
  /\ office = [u \in Accounts |-> [d \in Departments |->
       IF u = Founder /\ d = FounderDept THEN FounderOffice ELSE NoOffice]]
  /\ primary = [u \in Accounts |-> IF u = Founder THEN {FounderDept} ELSE {}]
  /\ older = [u \in Accounts |-> {}]
  /\ open = Departments
  /\ roles = Templates
-----------------------------------------------------------------------------
(***************************************************************************)
(* Registration.  Signing up again before the mailbox is confirmed         *)
(* replaces the application.                                               *)
(***************************************************************************)
Register(u, d) ==
  /\ status[u] \in {Unregistered, "pending_verification"}
  /\ status' = [status EXCEPT ![u] = "pending_verification"]
  /\ requested' = [requested EXCEPT ![u] = d]
  /\ UNCHANGED <<verified, membershipVars, open, roles>>

\* Slip: confirmation writes a status the state machine does not know.
ConfirmEmailAsVerified(u) ==
  /\ status[u] # Unregistered
  /\ verified' = [verified EXCEPT ![u] = TRUE]
  /\ status' = [status EXCEPT ![u] = IF @ = "pending_verification" THEN "verified" ELSE @]
  /\ UNCHANGED <<requested, membershipVars, open, roles>>

\* Redeeming a registration code; codes are issued to accounts in any status.
ConfirmEmail(u) ==
  /\ status[u] # Unregistered
  /\ verified' = [verified EXCEPT ![u] = TRUE]
  /\ status' = [status EXCEPT ![u] = IF @ = "pending_verification" THEN "pending_approval" ELSE @]
  /\ UNCHANGED <<requested, membershipVars, open, roles>>
-----------------------------------------------------------------------------
(***************************************************************************)
(* enforce_seat_capacity: a third deputy is refused; a unique seat is      *)
(* transferred by demoting whoever else holds it.                          *)
(***************************************************************************)
Others(u, d, o) == Holders(d, o) \ {u}

SeatAvailable(u, d, o) ==
  \/ o \notin LimitedOffices
  \/ o \in UniqueOffices
  \/ office[u][d] = o
  \/ Cardinality(Others(u, d, o)) < SeatLimit(o)

\* Slip: the unique seat is given without taking it from anyone.
DisplacedNobody(u, d, o) == {}

Displaced(u, d, o) ==
  IF o \in UniqueOffices /\ office[u][d] # o THEN Others(u, d, o) ELSE {}

\* The table after o goes to u in d and the displaced holders become members.
Seated(u, d, o) ==
  [a \in Accounts |-> [office[a] EXCEPT ![d] =
     IF a = u THEN o ELSE IF a \in Displaced(u, d, o) THEN Member ELSE @]]

(***************************************************************************)
(* The body shared by assign, appoint and approve: seat, upsert the row,   *)
(* and make it primary when asked or when the account has no primary.      *)
(***************************************************************************)
\* Slip: the new row is flagged without clearing the old flag.
PlaceAccountKeepingFlags(u, d, o, makePrimary) ==
  /\ SeatAvailable(u, d, o)
  /\ office' = Seated(u, d, o)
  /\ older' = [older EXCEPT ![u] =
       IF d \in PlacedIn(u) THEN @ ELSE @ \cup (PlacedIn(u) \X {d})]
  /\ primary' = [primary EXCEPT ![u] = IF makePrimary \/ @ = {} THEN @ \cup {d} ELSE @]

PlaceAccount(u, d, o, makePrimary) ==
  /\ SeatAvailable(u, d, o)
  /\ office' = Seated(u, d, o)
  /\ older' = [older EXCEPT ![u] =
       IF d \in PlacedIn(u) THEN @ ELSE @ \cup (PlacedIn(u) \X {d})]
  /\ primary' = [primary EXCEPT ![u] = IF makePrimary \/ @ = {} THEN {d} ELSE @]

Assign(actor, u, d, o, makePrimary) ==
  /\ MayPlace(Context(actor), d, o)
  /\ status[u] # Unregistered
  /\ PlaceAccount(u, d, o, makePrimary)
  /\ UNCHANGED <<accountVars, open, roles>>

Appoint(actor, u, d, o) ==
  /\ status[u] = "active"
  /\ MayPlace(Context(actor), d, o)
  /\ PlaceAccount(u, d, o, TRUE)
  /\ UNCHANGED <<accountVars, open, roles>>

\* modify with a role: stepping down to member is a release, anything else a placement.
ModifyRole(actor, u, d, o, makePrimary) ==
  /\ d \in PlacedIn(u)
  /\ MayAssign(Context(actor), d)
  /\ IF o = Member
       THEN CanReleaseOffice(Context(actor), d, office[u][d], u)
       ELSE MayPlace(Context(actor), d, o) /\ SeatAvailable(u, d, o)
  /\ office' = Seated(u, d, o)
  /\ primary' = [primary EXCEPT ![u] = IF makePrimary THEN {d} ELSE @]
  /\ UNCHANGED <<older, accountVars, open, roles>>

\* modify without a role: only the primary flag moves.
ModifyPrimary(actor, u, d) ==
  /\ d \in PlacedIn(u)
  /\ MayAssign(Context(actor), d)
  /\ primary' = [primary EXCEPT ![u] = {d}]
  /\ UNCHANGED <<office, older, accountVars, open, roles>>

Release(actor, u, d) ==
  /\ d \in PlacedIn(u)
  /\ CanReleaseOffice(Context(actor), d, office[u][d], u)
  /\ ModifyRole(actor, u, d, Member, FALSE)

\* The oldest rows among those in S; created_at is distinct, so at most one.
Oldest(u, S) == {d \in S : \A e \in S : <<e, d>> \notin older[u]}

Revoke(actor, u, d) ==
  LET remaining == PlacedIn(u) \ {d} IN
  /\ d \in PlacedIn(u)
  /\ MayAssign(Context(actor), d)
  /\ IF office[u][d] # Member
       THEN CanReleaseOffice(Context(actor), d, office[u][d], u)
       ELSE CanAppointOffice(Context(actor), d, Member)
  /\ office' = [office EXCEPT ![u][d] = NoOffice]
  /\ older' = [older EXCEPT ![u] = @ \cap (remaining \X remaining)]
  /\ \/ d \notin primary[u] /\ UNCHANGED primary
     \/ /\ d \in primary[u]
        /\ remaining = {}
        /\ primary' = [primary EXCEPT ![u] = @ \ {d}]
     \/ /\ d \in primary[u]
        /\ \E heir \in Oldest(u, remaining) : primary' = [primary EXCEPT ![u] = {heir}]
  /\ UNCHANGED <<accountVars, open, roles>>
-----------------------------------------------------------------------------
(***************************************************************************)
(* The approval queue and account status.                                  *)
(***************************************************************************)

\* _resolve_admission_placement: only an administrator chooses the placement.
AdmissionPlacement(actor, u, d, o) ==
  \/ IsPlatformAdministrator(Context(actor))
  \/ d = requested[u] /\ o = Member

Approve(actor, u, d, o) ==
  /\ HasAnywhere(Context(actor), "review_registrations")
  /\ status[u] \in {"pending_approval", "rejected"}
  /\ AdmissionPlacement(actor, u, d, o)
  /\ CanReviewDepartment(Context(actor), d)
  /\ MayPlace(Context(actor), d, o)
  /\ PlaceAccount(u, d, o, TRUE)
  /\ status' = [status EXCEPT ![u] = "active"]
  /\ UNCHANGED <<verified, requested, open, roles>>

Reject(actor, u) ==
  /\ HasAnywhere(Context(actor), "review_registrations")
  /\ status[u] # Unregistered
  /\ MayReviewRequest(Context(actor), requested[u])
  /\ status' = [status EXCEPT ![u] = "rejected"]
  /\ UNCHANGED <<verified, requested, membershipVars, open, roles>>

ChangeStatus(actor, u, s) ==
  /\ HasAnywhere(Context(actor), "deactivate_accounts")
  /\ u # actor
  /\ status[u] # Unregistered
  /\ status' = [status EXCEPT ![u] = s]
  /\ UNCHANGED <<verified, requested, membershipVars, open, roles>>

\* update_department, as far as placement sees it: retiring and restoring.
UpdateDepartment(actor, d) ==
  /\ HasAnywhere(Context(actor), "manage_departments")
  /\ open' = IF d \in open THEN open \ {d} ELSE open \cup {d}
  /\ UNCHANGED <<accountVars, membershipVars, roles>>
-----------------------------------------------------------------------------
(***************************************************************************)
(* The role rows.                                                          *)
(***************************************************************************)
\* update_role: an edit that leaves the permissions out changes only the scope.
EditRole(actor, x) ==
  /\ HasAnywhere(Context(actor), "manage_roles")
  /\ \E wanted \in RoleInputs[x] :
       /\ \/ wanted.permissions = roles[x].permissions
          \/ wanted.permissions \subseteq GrantedPermissions(Context(actor))
       /\ roles' = [roles EXCEPT ![x] = wanted]
  /\ UNCHANGED <<accountVars, membershipVars, open>>

\* provision_organization, of what is here: existing departments and accounts are left alone.
Restart ==
  /\ roles' = Templates
  /\ UNCHANGED <<accountVars, membershipVars, open>>
-----------------------------------------------------------------------------
(***************************************************************************)
(* What the console shows, from which officers pick what they do next.     *)
(***************************************************************************)
\* list_pending_registrations.
Queue(actor) ==
  {u \in Accounts :
     /\ HasAnywhere(Context(actor), "review_registrations")
     /\ status[u] = "pending_approval" /\ verified[u]
     /\ MayReviewRequest(Context(actor), requested[u])}

\* list_office_board: the seats the caller can fill, each with a button if somebody can be
\* released from it.
Board(actor) ==
  {seat \in [dept : open, office : LimitedOffices] :
     /\ HasAnywhere(Context(actor), "assign_departments")
     /\ seat.office \in BoardOffices(seat.dept)
     /\ CanAppointOffice(Context(actor), seat.dept, seat.office)}

CanReleaseSeat(actor, seat) ==
  \E u \in Holders(seat.dept, seat.office) :
    CanReleaseOffice(Context(actor), seat.dept, seat.office, u)
-----------------------------------------------------------------------------
SelfService(u) == ConfirmEmail(u) \/ \E d \in RequestInputs : Register(u, d)

\* require_active_account: the other accounts are turned away before any handler runs.
MayCall(actor) == status[actor] = "active"

Decision(actor, u) ==
  \/ Reject(actor, u)
  \/ \E s \in StatusInputs : ChangeStatus(actor, u, s)
  \/ \E d \in Departments :
       \/ ModifyPrimary(actor, u, d)
       \/ Release(actor, u, d)
       \/ Revoke(actor, u, d)
       \/ \E o \in Offices :
            \/ Appoint(actor, u, d, o)
            \/ Approve(actor, u, d, o)
            \/ \E makePrimary \in BOOLEAN :
                 \/ Assign(actor, u, d, o, makePrimary)
                 \/ ModifyRole(actor, u, d, o, makePrimary)

Next ==
  \/ \E u \in Accounts : SelfService(u)
  \/ \E actor \in Accounts : MayCall(actor) /\ \E u \in Accounts : Decision(actor, u)
  \/ \E actor \in Accounts : MayCall(actor) /\ \E d \in Retirable : UpdateDepartment(actor, d)
  \/ \E actor \in Accounts : MayCall(actor) /\ \E x \in Offices : EditRole(actor, x)
  \/ Restart

Spec == Init /\ [][Next]_vars
-----------------------------------------------------------------------------
(***************************************************************************)
(* Properties.                                                             *)
(***************************************************************************)

\* Exactly one membership of a placed account is flagged primary, and it is a
\* membership the account still has: resolve_landing_path and the evaluator
\* take the first flagged row and never look for a second.
OnePrimary ==
  \A u \in Accounts :
    IF PlacedIn(u) = {} THEN primary[u] = {}
    ELSE \E d \in PlacedIn(u) : primary[u] = {d}

\* However placements, transfers and step-downs follow each other, no department
\* ever has two holders of a unique office or three deputies.
SeatsRespected ==
  \A d \in Departments, o \in LimitedOffices : Cardinality(Holders(d, o)) <= SeatLimit(o)

\* The offices that officers, as opposed to the administrator, can ever fill in d.
OfficesIn(d) ==
  CASE d = Presidium -> PresidiumOffices \cup {Member}
    [] d \in {PlatformAdminDept, AlumniDept} -> {}
    [] OTHER -> {Director, Deputy, Member}

\* Once the platform has been handed to an officer, no sequence of officers'
\* decisions puts anyone into an office outside its department: no second
\* presidency elsewhere, no administrator, nobody in the hidden department.
OfficesStayInTheirDepartments ==
  FounderOffice \in OfficesIn(FounderDept) =>
    \A u \in Accounts, d \in Departments : office[u][d] \in OfficesIn(d) \cup {NoOffice}

\* Nobody has edited the rows of the offices this caller holds since the last start.
AsShipped(ctx) ==
  \A m \in ctx.held :
    Template(m.office) = [permissions |-> m.permissions, organization |-> m.organization]

\* The office board asks only the appointment rules, the operations behind its buttons ask the
\* permission rows too.  Somebody whose own roles are as shipped is never refused one of them for want
\* of a permission; whose role was edited may be (appointment_service.py:80).
BoardIsHonest ==
  \A actor \in Accounts : AsShipped(Context(actor)) =>
    \A seat \in Board(actor) :
      /\ MayPlace(Context(actor), seat.dept, seat.office)
      /\ CanReleaseSeat(actor, seat) => MayAssign(Context(actor), seat.dept)

\* Once an officer runs the platform, every application a queue shows names a department that the
\* officer may review and appoint members of, however the role rows are edited; if the officer's own
\* are as shipped, approving is permitted.  The queue filters by requested slug, approval
\* then asks three different rules about the department.
QueueIsDecidable ==
  FounderOffice \in OfficesIn(FounderDept) =>
    \A actor \in Accounts : \A u \in Queue(actor) :
      /\ requested[u] \in Departments
      /\ CanReviewDepartment(Context(actor), requested[u])
      /\ CanAppointOffice(Context(actor), requested[u], Member)
      /\ AsShipped(Context(actor)) => MayPlace(Context(actor), requested[u], Member)

\* A unique seat that passes from one account to another leaves the predecessor in
\* the department as a member, with its landing department unchanged.
TransferKeepsPredecessor ==
  [][\A u \in Accounts, d \in Departments :
       ( /\ office[u][d] \in UniqueOffices /\ office'[u][d] # office[u][d]
         /\ \E v \in Accounts : office[v][d] # office[u][d] /\ office'[v][d] = office[u][d] )
         => office'[u][d] = Member /\ primary'[u] = primary[u]]_vars

\* Whoever holds an office may be placed elsewhere, and a president may place themselves: once the
\* last president and administrator are gone, and no other office was given manage_settings before,
\* nobody is ever again put into a presidium seat, a director's or the administrator's, whatever is
\* edited in the console and however often the backend restarts.
NoAppointer ==
  /\ \A u \in Accounts, d \in Departments : office[u][d] \notin {President, Administrator}
  /\ \A x \in Offices \ {President, Administrator} : "manage_settings" \notin roles[x].permissions
VacancyIsForever ==
  [][NoAppointer =>
       /\ NoAppointer'
       /\ \A u \in Accounts, d \in Departments :
            office'[u][d] \in PresidiumOffices \cup {Director, Administrator}
              => office'[u][d] = office[u][d]]_vars
=============================================================================
