------------------------------- MODULE StaffRoles -------------------------------
(***************************************************************************)
(* The roles of users and what each permits, and the vocabulary of the     *)
(* modules that say what a page offers and how its requests are answered.  *)
(***************************************************************************)
EXTENDS Integers, Sequences

CONSTANTS
    Supers,         \* users with the role SUPER_ADMIN
    Admins,         \* ADMIN
    Accountants,    \* ACCOUNTANT
    Drivers         \* DELIVERY_PARTNER

ASSUME RolesAssumption ==
    /\ Supers \cap (Admins \cup Accountants \cup Drivers) = {}
    /\ Admins \cap (Accountants \cup Drivers) = {}
    /\ Accountants \cap Drivers = {}

Staff == Supers \cup Admins \cup Accountants
Users == Staff \cup Drivers

Roles == {"SUPER_ADMIN", "ADMIN", "ACCOUNTANT", "SALESMAN", "WAREHOUSE_MANAGER", "DELIVERY_PARTNER"}

AdminPermissions ==
    {"customer.view", "customer.create", "customer.update", "product.view", "product.create",
     "product.update", "product.price.update", "product.tax.update", "pricing.override",
     "order.view", "order.create", "order.submit", "order.approve", "order.reject",
     "order.cancel", "order.adjust.request", "order.adjust.review", "order.adjust.approve",
     "order.adjust.apply", "order.adjust.reverse", "payment.view", "payment.create",
     "payment.verify", "inventory.view", "inventory.adjust", "delivery.view",
     "delivery.assign", "delivery.update", "return.request", "return.review",
     "return.approve", "credit.view", "credit.create", "refund.view", "refund.request",
     "refund.approve", "invoice.view", "invoice.print", "invoice.download",
     "receivable.view", "payable.view", "payable.manage", "accounting.view", "user.view",
     "user.create", "user.update", "user.suspend", "audit.view", "audit.security.view",
     "role.manage"}

AccountantPermissions ==
    {"customer.view", "order.view", "order.adjust.review", "return.review", "payment.view",
     "payment.create", "payment.verify", "payment.reverse", "credit.view", "credit.create",
     "refund.view", "refund.request", "refund.approve", "invoice.view", "invoice.print",
     "invoice.download", "receivable.view", "payable.view", "payable.manage",
     "accounting.view", "accounting.post", "accounting.reverse"}

Permissions ==
    AdminPermissions \cup {"payment.reverse", "inventory.exception.report", "accounting.post",
                           "accounting.reverse"}

PermissionsOf(role) ==
    CASE role = "SUPER_ADMIN" -> Permissions
      [] role = "ADMIN" -> AdminPermissions
      [] role = "ACCOUNTANT" -> AccountantPermissions
      [] role = "SALESMAN" ->
            {"customer.view", "product.view", "order.view", "order.create", "order.submit",
             "order.adjust.request", "return.request", "refund.request", "payment.view",
             "payment.create", "invoice.view", "invoice.print", "invoice.download",
             "receivable.view"}
      [] role = "WAREHOUSE_MANAGER" ->
            {"product.view", "order.view", "inventory.view", "inventory.adjust",
             "inventory.exception.report", "order.adjust.request", "delivery.view",
             "return.review"}
      [] role = "DELIVERY_PARTNER" -> {"delivery.view", "delivery.update", "order.view"}

RoleOf(u) ==
    CASE u \in Supers -> "SUPER_ADMIN"
      [] u \in Admins -> "ADMIN"
      [] u \in Accountants -> "ACCOUNTANT"
      [] u \in Drivers -> "DELIVERY_PARTNER"

Has(u, permission) == permission \in PermissionsOf(RoleOf(u))

--------------------------------------------------------------------------------
\* Buttons and answers

\* What a button does, and to which of the documents of the page.
On(verb, of) == [verb |-> verb, of |-> of]

\* The buttons of document i that do these things, if the condition holds.
Offer(i, verbs, condition) == {On(verb, i) : verb \in {v \in verbs : condition}}

\* What happens meanwhile, if it can.
When(condition, next) == {n \in {next} : condition}

\* The flag a button sets while its request is under way, and what clears it: nothing, the
\* end of the request ("finish"), or only a success and a list of errors ("outcome").
Flag(name, cleared) == [name |-> name, cleared |-> cleared]

NoFlag == Flag("", "finish")

\* The flag of a modal that cannot be closed while it is set.
ModalFlag == Flag("modal", "finish")

\* Mutant of MakerChecker: everybody decides about his own.
MakerCheckerOff(u, document) == TRUE

\* Whoever made a document does not decide about it, unless he is SUPER_ADMIN.
MakerChecker(u, document) == document.maker # u \/ u \in Supers

\* The row after a request, and what the request is answered.
Reply(row, answer) == [row |-> row, answer |-> answer]

\* A request whose form is wrong is refused with a list of errors, one that the state of
\* the row does not admit with a conflict.  Otherwise the row becomes next.
Checked(row, wellFormed, inState, next) ==
    IF ~wellFormed THEN Reply(row, "invalid")
    ELSE IF ~inState THEN Reply(row, "conflict")
    ELSE Reply(next, "done")
================================================================================
