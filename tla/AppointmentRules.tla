-------------------------- MODULE AppointmentRules --------------------------
(***************************************************************************)
(* Who may place whom into which office.                                   *)
(*                                                                         *)
(* Pure operators over an authorization context: the immutable snapshot    *)
(* the backend builds from the caller's account before a handler runs.  A  *)
(* context is a record                                                     *)
(*    user   : the caller                                                  *)
(*    active : whether the caller's account is ACTIVE                      *)
(*    held   : the caller's current memberships in departments that are    *)
(*             not retired, each with its department and office and with   *)
(*             the permissions and the scope of the office's role row      *)
(*                                                                         *)
(* Two layers decide every placement: the permissions in the role rows,    *)
(* which people edit (Has), and the appointment rules that sit on top of   *)
(* them and know offices only (CanAppointOffice, CanReleaseOffice,         *)
(* CanReviewDepartment).                                                   *)
(*                                                                         *)
(* A definition marked "Slip" is not the code: it is a plausible mistake   *)
(* in the definition that follows it, kept to show which property of       *)
(* Placement would notice.                                                 *)
(***************************************************************************)
EXTENDS Naturals

Presidium == "presidium"
PlatformAdminDept == "platform-admin"
AlumniDept == "alumni"

Member == "department_member"
Deputy == "department_deputy"
Director == "department_lead"
President == "executive"
SecretaryGeneral == "presidium_secretary_general"
InternalVP == "presidium_internal_vp"
ExternalVP == "presidium_external_vp"
Administrator == "platform_administrator"
Alumnus == "alumnus"

PresidiumOffices == {President, SecretaryGeneral, InternalVP, ExternalVP}
OfficeKeys == PresidiumOffices \cup {Member, Deputy, Director, Administrator, Alumnus}

(***************************************************************************)
(* Role templates: what a start of the backend writes into the role rows,  *)
(* of the permissions that matter to placement, and the offices whose      *)
(* grants reach every department.                                          *)
(***************************************************************************)
Permissions == {"review_registrations", "assign_departments", "deactivate_accounts",
                "manage_departments", "manage_roles", "manage_settings"}

Grants(office) ==
  CASE office = Administrator -> Permissions
    [] office = President -> Permissions \ {"manage_settings"}
    [] office = InternalVP -> {"deactivate_accounts", "manage_departments"}
    [] office \in {Director, Deputy} -> {"review_registrations", "assign_departments"}
    [] OTHER -> {}

\* Slip: the presidium's grants reach only the presidium.
AdministratorScope == {Administrator}

OrganizationScope == PresidiumOffices \cup {Administrator}

Template(office) == [permissions |-> Grants(office), organization |-> office \in OrganizationScope]

(***************************************************************************)
(* The evaluator.  HasAnywhere is the department_id = None form, used by   *)
(* listings; Has is the form every mutating endpoint must use.             *)
(***************************************************************************)
GrantedPermissions(ctx) == UNION {m.permissions : m \in ctx.held}

OrganizationPermissions(ctx) == UNION {m.permissions : m \in {h \in ctx.held : h.organization}}

IsPlatformAdministrator(ctx) == "manage_settings" \in OrganizationPermissions(ctx)

Has(ctx, p, d) ==
  /\ ctx.active
  /\ \/ p \in OrganizationPermissions(ctx)
     \/ \E m \in ctx.held : m.dept = d /\ p \in m.permissions

HasAnywhere(ctx, p) == ctx.active /\ p \in GrantedPermissions(ctx)

\* has_organization_reach: any permission at all that reaches every department.
HasOrganizationReach(ctx) == OrganizationPermissions(ctx) # {}

(***************************************************************************)
(* The appointment rules.                                                  *)
(***************************************************************************)
UniqueOffices == PresidiumOffices \cup {Director}

\* seat_limit_for; an office without a cap is not in LimitedOffices.
LimitedOffices == UniqueOffices \cup {Deputy}
SeatLimit(office) == IF office = Deputy THEN 2 ELSE 1

Holds(ctx, d, office) == \E m \in ctx.held : m.dept = d /\ m.office = office

\* The president's office counts wherever it is held.
IsPresident(ctx) == \E m \in ctx.held : m.office = President

CanReviewDepartment(ctx, d) ==
  \/ IsPlatformAdministrator(ctx)
  \/ IsPresident(ctx) /\ d = Presidium
  \/ Holds(ctx, d, Director)
  \/ Holds(ctx, d, Deputy)

\* Slip: any director's queue shows the requests of every department.
MayReviewAnyRequest(ctx, requested) ==
  \/ IsPlatformAdministrator(ctx)
  \/ \E m \in ctx.held : m.office \in {Director, Deputy}
  \/ IsPresident(ctx) /\ requested = Presidium

\* The registration queue an account may see; an administrator sees all of it.
MayReviewRequest(ctx, requested) ==
  \/ IsPlatformAdministrator(ctx)
  \/ \E m \in ctx.held : m.office \in {Director, Deputy} /\ m.dept = requested
  \/ IsPresident(ctx) /\ requested = Presidium

\* Slip: the president's two clauses forget which department they are about.
CanAppointAnywhere(ctx, d, office) ==
  \/ IsPlatformAdministrator(ctx)
  \/ /\ d \notin {PlatformAdminDept, AlumniDept}
     /\ \/ office \in PresidiumOffices \cup {Director} /\ IsPresident(ctx)
        \/ office = Deputy /\ Holds(ctx, d, Director)
        \/ office = Member /\ CanReviewDepartment(ctx, d)

\* Slip: a director names the next one.
CanAppointSuccessor(ctx, d, office) ==
  \/ IsPlatformAdministrator(ctx)
  \/ /\ d \notin {PlatformAdminDept, AlumniDept}
     /\ \/ office = Director /\ IsPresident(ctx) /\ d # Presidium
        \/ office \in PresidiumOffices /\ IsPresident(ctx) /\ d = Presidium
        \/ office \in {Director, Deputy} /\ Holds(ctx, d, Director)
        \/ office = Member /\ CanReviewDepartment(ctx, d)

CanAppointOffice(ctx, d, office) ==
  \/ IsPlatformAdministrator(ctx)
  \/ /\ d \notin {PlatformAdminDept, AlumniDept}
     /\ \/ office = Director /\ IsPresident(ctx) /\ d # Presidium
        \/ office \in PresidiumOffices /\ IsPresident(ctx) /\ d = Presidium
        \/ office = Deputy /\ Holds(ctx, d, Director)
        \/ office = Member /\ CanReviewDepartment(ctx, d)

CanReleaseOffice(ctx, d, office, holder) ==
  /\ \/ office # President
     \/ holder # ctx.user
     \/ IsPlatformAdministrator(ctx)
  /\ CanAppointOffice(ctx, d, office)

\* membership_service.assert_may_assign and appointment_service.assert_may_place.
MayAssign(ctx, d) == Has(ctx, "assign_departments", d)
MayPlace(ctx, d, office) == MayAssign(ctx, d) /\ CanAppointOffice(ctx, d, office)

\* Offices the console's board offers for one department.
BoardOffices(d) ==
  CASE d = Presidium -> PresidiumOffices
    [] d \in {PlatformAdminDept, AlumniDept} -> {}
    [] OTHER -> {Director, Deputy}
=============================================================================
