---- MODULE CustomerReplica ----
(* What the customers table owes Shopify, whatever brings the news: it shows of  *)
(* each customer some version Shopify has had, hides only customers Shopify has  *)
(* deleted at some time, and once Shopify rests it shows Shopify as it is.       *)
(* CustomerMirror, with its webhooks, pulls and reconciles, implements it.       *)
EXTENDS Naturals

CONSTANT Customers

VARIABLES
  original,  \* original[c]: the version Shopify has (0: none yet), and whether it lives
  deletedOnce,  \* the customers Shopify has deleted at some time
  copy       \* copy[c]: the version the table has (0: no row), and whether it is shown

replicaVars == <<original, deletedOnce, copy>>

Value == [version : Nat, live : BOOLEAN]

(* Shopify creates, edits, deletes or brings back a customer. *)
Change(c) ==
  \E v \in {original[c].version, original[c].version + 1}, l \in BOOLEAN :
    /\ original' = [original EXCEPT ![c] = [version |-> v, live |-> l]]
    /\ deletedOnce' = IF original[c].live /\ ~l THEN deletedOnce \cup {c} ELSE deletedOnce

(* The table takes over something that is or was true of each of some customers. *)
Learn ==
  /\ \A c \in Customers :
       /\ copy'[c].version \in 0 .. original[c].version
       /\ ~copy'[c].live /\ copy[c].live => c \in deletedOnce
  /\ UNCHANGED <<original, deletedOnce>>

(* What an admin creates is at Shopify before it is in the table. *)
ReplicaNext == Learn \/ ((\E c \in Customers : Change(c)) /\ UNCHANGED copy)

(* Of a customer that is gone, or never was, the table may keep a hidden row. *)
Alike(c) == copy[c] = original[c] \/ (~original[c].live /\ (copy[c].version > 0 => ~copy[c].live))

ReplicaSafety == (\A c \in Customers : copy[c].version <= original[c].version)
                 /\ [][ReplicaNext]_replicaVars

Replica == ReplicaSafety /\ <>[](\A c \in Customers : Alike(c))
====
