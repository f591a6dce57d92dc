---------------------------- MODULE MCApiGateway ----------------------------
EXTENDS ApiGateway, TLC
CONSTANTS q1, q2
MCKinds == q1 :> {"get"} @@ q2 :> {"get", "post"}
=============================================================================
