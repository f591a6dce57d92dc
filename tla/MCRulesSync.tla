----------------------------- MODULE MCRulesSync -----------------------------
EXTENDS RulesSync
CONSTANTS s1, s2, a, b
MCSaves == {s1, s2}
MCKeys == {a, b}
none == [form |-> "absent", keys |-> {}]
bad == [form |-> "malformed", keys |-> {}]
rules(K) == [form |-> "rules", keys |-> K]
MCOffers == {[groups |-> g, records |-> r] :
               <<g, r>> \in {<<rules({a, b}), rules({a})>>, <<rules({a}), rules({})>>,
                            <<none, bad>>}}
MCUnique == BOOLEAN
MCShipments == {"nothing", "rules", "once", "bare"}
MCIdentities == BOOLEAN
=============================================================================
