------------------------------ MODULE Addresses ------------------------------
(***************************************************************************)
(* A customer's addresses and which of them is the default one             *)
(* (customer-addresses.service).  Requests of one customer run in READ     *)
(* COMMITTED transactions: what one has written is locked until it ends,   *)
(* but what it has read may have changed.  An update reads its address     *)
(* before its transaction begins.                                          *)
(***************************************************************************)
EXTENDS Rows

CONSTANTS
  MaxAddresses,  \* bound: addresses created
  Tabs           \* requests in flight at once

VARIABLES
  isDefault,     \* Address.isDefault, by createdAt; None if there is no such row
  created,       \* addresses created so far
  form,          \* what each request is doing
  crossed        \* a request changed what another had decided on, and nobody
                 \* has chosen a default since

addressVars == <<isDefault, created, form, crossed>>

AddressIds == 1..MaxAddresses
FormRow(defaults) ==
  [op : { "create", "update", "delete" }, a : AddressIds \cup { None }, default : defaults,
   step : { "clear", "write", "promote" }, clears : BOOLEAN, cleared : SUBSET AddressIds, removed : SUBSET AddressIds,
   old : BOOLEAN]

ASSUME AddressAssumption ==
  /\ MaxAddresses \in Nat
  /\ None \notin BOOLEAN /\ None \notin FormRow(BOOLEAN) /\ None \notin FormRow(AddressIds)

Saved == { a \in AddressIds : isDefault[a] # None }
Defaults == { a \in AddressIds : isDefault[a] = TRUE }

AddressInit ==
  /\ isDefault = [a \in AddressIds |-> None] /\ created = 0
  /\ form = [t \in Tabs |-> None] /\ crossed = FALSE

\* Rows written by the transactions of others.
Held(t) == UNION { form[o].cleared \cup form[o].removed : o \in { p \in Tabs \ { t } : form[p] # None } }
Fills(t, step) == form[t] # None /\ form[t].step = step
Opens(t, op, a, default, clears) ==
  form' = [form EXCEPT ![t] = [op |-> op, a |-> a, default |-> default, step |-> IF clears THEN "clear" ELSE "write",
                               clears |-> clears, cleared |-> {}, removed |-> {}, old |-> FALSE]]

\* The rows become `next` and the transaction ends; the others go on with what
\* they have read.
Commits(t, next) ==
  /\ isDefault' = next
  /\ form' = [o \in Tabs |-> IF o = t THEN None ELSE IF form[o] # None THEN [form[o] EXCEPT !.old = TRUE] ELSE None]
  /\ crossed' = (form[t].old \/ (crossed /\ ~form[t].clears))

\* A row that is to be written has gone: Prisma throws, and the transaction is
\* rolled back.
RollsBack(t) ==
  /\ form' = [form EXCEPT ![t] = None]
  /\ UNCHANGED <<isDefault, created, crossed>>

-----------------------------------------------------------------------------

\* The first address becomes the default one, whatever was asked for.
BeginCreate(t, asked) ==
  /\ form[t] = None
  /\ LET default == asked \/ Saved = {} IN Opens(t, "create", None, default, default)
  /\ UNCHANGED <<isDefault, created, crossed>>

\* Broken variant: only a default that is set again is taken from the others.
ClearsIfKept(asked, was) == asked = TRUE /\ was

\* An address that was the default one already when it was read takes it from
\* no other.
ClearsOthers(asked, was) == asked = TRUE /\ ~was

\* asked is None when the payload has no isDefault.
BeginChange(t, a, asked) ==
  /\ form[t] = None /\ a \in Saved
  /\ ~(asked = FALSE /\ isDefault[a])
  /\ Opens(t, "update", a, asked = TRUE \/ (asked = None /\ isDefault[a]), ClearsOthers(asked, isDefault[a]))
  /\ UNCHANGED <<isDefault, created, crossed>>

BeginDelete(t, a) ==
  /\ form[t] = None /\ a \in Saved
  /\ Opens(t, "delete", a, FALSE, FALSE)
  /\ UNCHANGED <<isDefault, created, crossed>>

ClearDefaults(t) ==
  /\ Fills(t, "clear") /\ Defaults \cap Held(t) = {}
  /\ form' = [form EXCEPT ![t].step = "write", ![t].cleared = Defaults]
  /\ UNCHANGED <<isDefault, created, crossed>>

Cleared(t) == [a \in AddressIds |-> IF a \in form[t].cleared THEN FALSE ELSE isDefault[a]]

CreateAddress(t) ==
  /\ Fills(t, "write") /\ form[t].op = "create" /\ created < MaxAddresses
  /\ created' = created + 1
  /\ Commits(t, [Cleared(t) EXCEPT ![created'] = form[t].default])

UpdateAddress(t) ==
  /\ Fills(t, "write") /\ form[t].op = "update" /\ form[t].a \notin Held(t)
  /\ IF form[t].a \in Saved
     THEN Commits(t, [Cleared(t) EXCEPT ![form[t].a] = form[t].default]) /\ UNCHANGED created
     ELSE RollsBack(t)

\* The row that is deleted tells whether it was the default one.
DeleteAddress(t) ==
  /\ Fills(t, "write") /\ form[t].op = "delete" /\ form[t].a \notin Held(t)
  /\ LET rest == Saved \ { form[t].a } IN
     IF form[t].a \notin Saved THEN RollsBack(t)
     ELSE IF isDefault[form[t].a] /\ rest # {}
     THEN /\ form' = [form EXCEPT ![t].step = "promote", ![t].removed = { form[t].a }, ![t].default = Max(rest)]
          /\ UNCHANGED <<isDefault, created, crossed>>
     ELSE Commits(t, [isDefault EXCEPT ![form[t].a] = None]) /\ UNCHANGED created

\* The latest address that is left takes its place.
PromoteLatest(t) ==
  /\ Fills(t, "promote") /\ form[t].default \notin Held(t)
  /\ IF form[t].default \in Saved
     THEN Commits(t, [isDefault EXCEPT ![form[t].a] = None, ![form[t].default] = TRUE]) /\ UNCHANGED created
     ELSE RollsBack(t)

\* A statement fails, as the one of two transactions does that wait for each
\* other's rows.
RequestIsRefused(t) == form[t] # None /\ RollsBack(t)

AddressNext ==
  \E t \in Tabs :
    \/ \E asked \in BOOLEAN : BeginCreate(t, asked)
    \/ \E a \in AddressIds : BeginDelete(t, a) \/ \E asked \in { TRUE, FALSE, None } : BeginChange(t, a, asked)
    \/ ClearDefaults(t) \/ CreateAddress(t) \/ UpdateAddress(t) \/ DeleteAddress(t) \/ PromoteLatest(t)
    \/ RequestIsRefused(t)

AddressSpec == AddressInit /\ [][AddressNext]_addressVars
-----------------------------------------------------------------------------
(* Properties.                                                              *)

\* A customer who has addresses has one default: whenever no request is under
\* way, but for requests that crossed, and until one that makes another
\* address the default puts that right (customer-addresses.service.ts:41-170).
DefaultIsOne ==
  (\A t \in Tabs : form[t] = None) /\ ~crossed /\ Saved # {} => Cardinality(Defaults) = 1
=============================================================================
