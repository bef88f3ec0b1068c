----------------------------- MODULE MCRecords ------------------------------
(***************************************************************************)
(* The start on a database, the writes to it and the rows of the Twitch    *)
(* connection in one run.  A behaviour runs one of the three, which share  *)
(* no variable.                                                            *)
(***************************************************************************)
EXTENDS StateStore, TwitchConnection, SchemaBoot

VARIABLE focus

TwoOfWeb == {"web1", "web2", "worker"}
ByName == [web1 |-> "web", web2 |-> "web", worker |-> "worker"]

\* What is not looked at starts in one way.
Init == /\ focus \in {"store", "twitch", "boot"} /\ StoreInit /\ TwInit /\ BootInit
        /\ focus # "twitch" => identity = NoIdentity /\ owner = NoOwner
        /\ focus # "store" => store.secrets.relay = Empty
        /\ focus # "boot" => site.release = Latest /\ database.schema = Columns

InStore  == focus = "store" /\ StoreNext /\ UNCHANGED <<focus, twVars, bootVars>>
OnTwitch == focus = "twitch" /\ TwNext /\ UNCHANGED <<focus, storeVars, bootVars>>
AtBoot   == focus = "boot" /\ BootNext /\ UNCHANGED <<focus, storeVars, twVars>>

Next == InStore \/ OnTwitch \/ AtBoot

\* The fairness is the store's: no call begins while another part is looked at.
Spec == /\ Init /\ [][Next]_<<focus, storeVars, twVars, bootVars>>
        /\ StoreFairness

\* The types of the part looked at.
TypesOK == /\ focus = "store" => StoreTypeOK
           /\ focus = "twitch" => TwTypeOK
           /\ focus = "boot" => BootTypeOK
=============================================================================
