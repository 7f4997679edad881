---------------------------- MODULE MCCatalogue ----------------------------
EXTENDS AssetClasses, Evaluations, PriceAxis, TLC

MCLabMethods == [prospecting |-> {"ore"}, milling |-> {"herb1", "herb2"}, disenchanting |-> {"dust"}]
MCCsvFiles == <<"SkillLineAbility", "SpellEffect", "SpellReagents">>
MCRowsIn == ("v1" :> {1, 2} @@ "v2" :> {2, 3})
MCReagents == [m \in Methods |-> IF m = "dust" THEN {} ELSE {"leaf"}]
MCDerivatives == [m \in Methods |-> {"pigment"}]
MCListings == {<<"leaf", "COMMDTY">>, <<"pigment", "AUCTION">>, <<"gold", "GOLD">>}
MCFirstItems == [i \in {"gold", "leaf", "pigment"} |-> IF i = "gold" THEN <<"GOLD">> ELSE IF i = "leaf" THEN <<"VSP">> ELSE NULL]

MCSamples == {3, 9, 14, 137, 260, 4075, 5000, 48888}
MCNiceSteps == {10, 20, 25, 50, 100, 200, 250, 500, 1000, 2000, 2500, 5000, 10000, 20000}

MCPrimaryRecipes ==
  {[reagents |-> {<<"herb", 2>>, <<"ink", 1>>}, derivatives |-> {<<"card", 1>>}],
   [reagents |-> {<<"ink", 3>>}, derivatives |-> {<<"card", 2>>}]}
MCOffer(market, orders) == [market |-> market, orders |-> orders]
MCOffers == {MCOffer(0, {}), MCOffer(40, {<<300, 1>>}), MCOffer(0, {<<200, 1>>, <<350, 2>>})}
MCVendorPrice == [i \in Goods |-> IF i = "card" THEN 200 ELSE 0]

VARIABLE part \* which of the three parts this behaviour is about

catalogueVars == <<part, pricingVars, classVars, evaluationVars, axisVars>>

CatalogueInit ==
  /\ part \in {"classes", "evaluations", "axis"}
  /\ ClassesInit /\ EvaluationsInit /\ PriceAxisInit
  /\ part # "classes" => running = {}
  /\ part # "evaluations" => \A i \in Goods : MarketPrice(i) = 0

CatalogueNext ==
  \/ (part = "classes" /\ ClassesNext /\ UNCHANGED <<part, evaluationVars, axisVars>>)
  \/ (part = "evaluations" /\ EvaluationsNext /\ UNCHANGED <<part, pricingVars, classVars, axisVars>>)
  \/ (part = "axis" /\ PriceAxisNext /\ UNCHANGED <<part, pricingVars, classVars, evaluationVars>>)

CatalogueSpec == CatalogueInit /\ [][CatalogueNext]_catalogueVars
=============================================================================
