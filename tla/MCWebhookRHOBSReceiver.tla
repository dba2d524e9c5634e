------------------------ MODULE MCWebhookRHOBSReceiver -----------------------
(***************************************************************************)
(* Small instances of WebhookRHOBSReceiver for TLC.                        *)
(***************************************************************************)
EXTENDS WebhookRHOBSReceiver, TLC

CONSTANTS
  slA, lsA, lsB,  \* items: a service log item, limited support items of two clusters
  sl, ls,         \* templates
  mc              \* the management cluster, hence the record

MCTemplateOf == slA :> sl @@ lsA :> ls @@ lsB :> ls
MCRecordOf == [i \in Items |-> mc]
\* One hosted cluster per item, so that a key is as fine as an item.
MCKeyOf == [i \in Items |-> i]
MCResendWait == [t \in Templates |-> 0]
MCSymmetry == Permutations(Handlers)
=============================================================================
