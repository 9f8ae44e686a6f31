----------------------------- MODULE VaultRules -----------------------------
(***************************************************************************)
(* Who may read, file and reorganise documents: the vault's permissions    *)
(* and the two independent conditions of a read, over the authorization    *)
(* contexts of AppointmentRules, whose permissions and scope are those of  *)
(* the role rows, as shipped or as edited.                                 *)
(***************************************************************************)
EXTENDS AppointmentRules

Shared == "shared"   \* department_id is null: the association as a whole
Visibilities == {"department", "organization", "presidium_only"}

DocumentPermissions == {"view", "upload", "edit", "delete", "manage_categories", "view_all"}

\* As shipped.
DocumentGrants(office) ==
  CASE office \in {Administrator, President, InternalVP, ExternalVP} -> DocumentPermissions
    [] office = SecretaryGeneral -> DocumentPermissions \ {"delete"}
    [] office = Director -> DocumentPermissions \ {"view_all"}
    [] office = Deputy -> {"view", "upload", "edit"}
    [] office = Member -> {"view", "upload"}
    [] office = Alumnus -> {"view"}

\* The snapshot of a membership in d whose role row has these permissions and reaches, or does not
\* reach, every department.
Held(d, office, permissions, everywhere) ==
  [dept |-> d, office |-> office, permissions |-> permissions, organization |-> everywhere]

\* department_id None asks whether the permission is held anywhere: that is what a category of the
\* association as a whole asks.
MayIn(ctx, p, d) == IF d = Shared THEN HasAnywhere(ctx, p) ELSE Has(ctx, p, d)

\* _readable_filter: the department branch lists departments one by one, so a permission held
\* everywhere lists none.
Readable(ctx, dept, visibility) ==
  /\ HasAnywhere(ctx, "view")
  /\ \/ "view_all" \in OrganizationPermissions(ctx)
     \/ visibility = "organization"
     \/ /\ visibility = "department"
        /\ "view" \notin OrganizationPermissions(ctx)
        /\ \E m \in ctx.held : m.dept = dept /\ "view" \in m.permissions
     \/ visibility = "presidium_only" /\ HasOrganizationReach(ctx)
=============================================================================
