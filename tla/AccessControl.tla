--------------------------- MODULE AccessControl ----------------------------
(***************************************************************************)
(* Who may read a passage or a document.  The rule is written three times  *)
(* in the code: on a loaded chunk (canAccessChunk), as a predicate of SQL  *)
(* (aclSqlAndParams) and as the list of ACL groups the vector index is     *)
(* asked for (enumerateAllowedAclGroups).                                  *)
(*                                                                         *)
(* A principal is [user, roles, departments]; the access of a passage is   *)
(* [scope, roles, departments, owner].                                     *)
(***************************************************************************)
EXTENDS Naturals, FiniteSets

CONSTANTS Admin,          \* ADMIN_ROLE, an operator capability
          Nobody,         \* the owner of what has none
          MaxFilterTerms  \* MAX_FILTER_TERMS

CanAccess(p, acl) ==
  \/ acl.scope = "public"
  \/ acl.scope = "department" /\ acl.departments \cap p.departments # {}
  \/ acl.scope = "role" /\ (acl.roles \ {Admin}) \cap p.roles # {}
  \/ acl.scope = "private" /\ acl.owner # Nobody /\ acl.owner = p.user

(* aclFilterFor, which refuses a principal of too many terms.              *)
FilterFor(p) == [p EXCEPT !.roles = @ \ {Admin}]

TooWide(p) ==
  \/ Cardinality(FilterFor(p).roles) > MaxFilterTerms
  \/ Cardinality(p.departments) > MaxFilterTerms

SqlAllows(f, acl) ==
  \/ acl.scope = "public"
  \/ acl.scope = "department" /\ acl.departments \cap f.departments # {}
  \/ acl.scope = "role" /\ acl.roles \cap f.roles # {}
  \/ acl.scope = "private" /\ acl.owner # Nobody /\ acl.owner = f.user

(* The group of a passage is a digest of its access: two agree only if the *)
(* access is the same, whatever the order of its lists.                    *)
AclGroup(acl) == acl

AllowedGroups(f, shapes) == {AclGroup(acl) : acl \in {s \in shapes : CanAccess(f, s)}}

(* readableDocumentPredicate: the catalog row passes, there is a body and  *)
(* there are passages, and every one of them passes too.                   *)
ReadableDocument(p, row, hasBody, passages) ==
  /\ SqlAllows(FilterFor(p), row) /\ hasBody /\ passages # {}
  /\ \A acl \in passages : SqlAllows(FilterFor(p), acl)
=============================================================================
