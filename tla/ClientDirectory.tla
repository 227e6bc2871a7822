---------------------------- MODULE ClientDirectory ----------------------------
(***************************************************************************)
(* The row of the directory (table clients) for one user of one practice,  *)
(* as clients-crud.service.ts writes it: staff create and delete it, and   *)
(* every accepted or paid intake of the user links it.  A link is made in  *)
(* the background of an event, finds the row first and writes later.       *)
(***************************************************************************)
EXTENDS Naturals, FiniteSets

CONSTANTS Intakes,   \* intakes the user has submitted to the practice
          None

ASSUME IntakesAssumption == None \notin Intakes

VARIABLES client,    \* the user's row
          linking    \* what createClientFromIntake does for each intake

directory == <<client, linking>>

Rows == [row : {"absent", "present", "deleted"}, intake : Intakes \cup {None}]

DirectoryTypeOK ==
    /\ client \in Rows
    /\ linking \in [Intakes -> {"idle", "link", "create"}]

DirectoryInit ==
    /\ client = [row |-> "absent", intake |-> None]
    /\ linking = [i \in Intakes |-> "idle"]

Linking(i, step) == linking' = [linking EXCEPT ![i] = step]

-----------------------------------------------------------------------------
\* createClientFromIntake for intake i, up to findByOrgAndUser: a row that is
\* linked already is left as it is.  Left out are a second run for the same
\* intake, which would write the same, and runs for a deleted row, which end
\* with a 409.
Find(i) ==
    /\ linking[i] = "idle"
    /\ client.row # "deleted"
    /\ client.row = "present" => client.intake = None
    /\ Linking(i, IF client.row = "present" THEN "link" ELSE "create")
    /\ UNCHANGED client

\* Mutant: the UPDATE does not repeat that the row has no intake.
LinkableUnchecked == client.row = "present"

\* The condition of updateIntakeIfNull.
Linkable == client.row = "present" /\ client.intake = None

\* Linked now, or by somebody else in between.
LinkRow(i) ==
    /\ linking[i] = "link"
    /\ client' = IF Linkable THEN [client EXCEPT !.intake = i] ELSE client
    /\ Linking(i, "idle")

\* One row per user: a second insert is a 409.
CreateLinked(i) ==
    /\ linking[i] = "create"
    /\ client' = IF client.row = "absent" THEN [row |-> "present", intake |-> i] ELSE client
    /\ Linking(i, "idle")

-----------------------------------------------------------------------------
\* createClient, by staff; a second insert fails.
CreateClient ==
    /\ client.row = "absent"
    /\ client' = [row |-> "present", intake |-> None]
    /\ UNCHANGED linking

\* deleteClient.  The row stays, and what is under way comes to nothing: it
\* finds no row to update, or a row when it inserts.
DeleteClient ==
    /\ client.row = "present"
    /\ client' = [client EXCEPT !.row = "deleted"]
    /\ linking' = [i \in Intakes |-> "idle"]

DirectoryNext ==
    \/ \E i \in Intakes : LinkRow(i) \/ CreateLinked(i)
    \/ CreateClient \/ DeleteClient
=============================================================================
