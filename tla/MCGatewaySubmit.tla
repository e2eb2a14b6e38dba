--------------------------- MODULE MCGatewaySubmit ---------------------------
(***************************************************************************)
(* Small instances of GatewaySubmit for TLC.                               *)
(***************************************************************************)
EXTENDS GatewaySubmit, TLC

CONSTANTS opA, opB, opC, recR, recS, task1, task2, bytesX, bytesY, hourly, spend, team

MCOp == {opA, opB, opC}
MCRecovery == {recR, recS}
MCSourceOf == recR :> opB @@ recS :> opB
Load(o1, o2, last, generations) ==
  [offer |-> task1 :> o1 @@ task2 :> o2, last |-> last, generations |-> generations]
MCWorkload ==
  {Load({<<opA, bytesX>>}, {<<opA, bytesX>>}, 1, 1),
   Load({<<opA, bytesX>>}, {<<opA, bytesY>>}, 0, 2),
   Load({<<opB, bytesX>>}, {<<opC, bytesX>>}, 2, 1),
   Load({<<opB, bytesX>>}, {<<opB, bytesX>>, <<opC, bytesX>>}, 0, 1),
   Load({<<opB, bytesX>>}, {<<recR, bytesX>>, <<recS, bytesX>>}, 1, 1),
   Load({<<opA, bytesX>>}, {<<opB, bytesX>>}, 0, 2)}
InFlightWorkload == {Load({<<opB, bytesX>>}, {<<recR, bytesX>>}, 0, 1)}
MCTask == {task1, task2}
MCCounter == {hourly, spend}
MCSums == {spend}
MCRowsOf == hourly :> 1 @@ spend :> 2
MCCapacityOf == spend :> 3
MCBoundOf == opA :> <<>> @@ opB :> <<spend>> @@ opC :> <<spend>> @@ recR :> <<hourly>> @@ recS :> <<>>
MCAmount == opA :> 2 @@ opB :> 2 @@ opC :> 2 @@ recR :> 0 @@ recS :> 0
MCEngagement == {team}
MCCeilingOf == team :> 1
MCReads == opA :> 1 @@ opB :> 0 @@ opC :> 0 @@ recR :> 0 @@ recS :> 0
MCEngagementOf == [k \in {<<opA, 0>>, <<opA, 1>>, <<opB, 0>>, <<opC, 0>>, <<recR, 0>>, <<recS, 0>>} |->
                     IF k[2] = 0 /\ k[1] \in {opA, opB} THEN <<team>> ELSE <<>>]
MCCheckpoints == {opA}
MCObservationOf == opA :> "None" @@ opB :> "VerifiedLocator" @@ opC :> "None"
MCEcho == {opB}
=============================================================================
