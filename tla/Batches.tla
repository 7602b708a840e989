------------------------------- MODULE Batches -------------------------------
(***************************************************************************)
(* A list of state messages on its way to the consumers, as the NDIC and   *)
(* Waze preprocessors publish it with PublishJSONBatches                   *)
(* (commons/src/rabbitmq/client.go): in the list's order, batch by batch,  *)
(* until one of them fails.                                                *)
(***************************************************************************)
EXTENDS Integers, Sequences

\* The logs of the instances after the messages of list, in order.
Delivered(logs, list) ==
  LET after[n \in 0 .. Len(list)] ==
        IF n = 0 THEN logs
        ELSE [after[n - 1] EXCEPT ![list[n].uid] = Append(@, list[n])]
  IN after[Len(list)]

\* How much of a list of n messages is out when publishing it fails: the whole
\* batches before the failing one.
FailedPrefixes(n, limit) == {k \in 0 .. n - 1 : k % limit = 0}
=============================================================================
