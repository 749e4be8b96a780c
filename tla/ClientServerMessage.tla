-------------------------- MODULE ClientServerMessage --------------------------
(***************************************************************************)
(* common/ClientServerMessage.h: one packed structure for every message,   *)
(* whose three parameters mean something else in each type.                *)
(***************************************************************************)

\* The parameters of the sender in each other's place.
GenerateSubscribeMessage_Swapped(clientId, m, n, k) ==
  [type |-> "Subscribe", senderId |-> clientId, param1 |-> n, param2 |-> m, param3 |-> k]

GenerateSubscribeMessage(clientId, m, n, k) ==
  [type |-> "Subscribe", senderId |-> clientId, param1 |-> m, param2 |-> n, param3 |-> k]

ProcessSubscribeMessage(message) ==
  [m |-> message.param1, n |-> message.param2, k |-> message.param3]

\* The parameters are not set, and nobody reads them.
GenerateUnsubscribeMessage(clientId) == [type |-> "Unsubscribe", senderId |-> clientId]

GenerateSubscribeResponseMessage(serverId, serverSideClientId, serverCapacity, serverClientCount) ==
  [type |-> "SubscribeResponse", senderId |-> serverId, param1 |-> serverSideClientId,
   param2 |-> serverCapacity, param3 |-> serverClientCount]
===============================================================================
