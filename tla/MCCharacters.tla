---------------------------- MODULE MCCharacters ----------------------------
EXTENDS Characters, TLC

MCPlan(guids, sessions, guilds, hashes, sources, sends, rosters, faults, crashes, closes, days, lossy) ==
  [guids |-> guids, sessions |-> sessions, guilds |-> guilds, hashes |-> hashes,
   sources |-> sources, sends |-> sends, rosters |-> rosters,
   faults |-> faults, crashes |-> crashes, closes |-> closes, days |-> days, lossy |-> lossy]

MCPlans ==
  {MCPlan({"c1"}, {}, {"g1", "g2"}, {"h1"}, {"index", "rosters"}, 2, 2, 0, 0, 0, 1, FALSE),
   MCPlan({"c1"}, {}, {"g1"}, {"h1"}, {"rosters"}, 1, 2, 0, 1, 0, 0, FALSE),
   MCPlan({"c1"}, {}, {"g1"}, {"h1", "h2"}, {"index", "newcomers", "scans"}, 2, 0, 2, 1, 0, 1, FALSE),
   MCPlan({"c1"}, {"s1"}, {"g1"}, {"h1"}, {}, 2, 0, 2, 2, 1, 0, FALSE),
   MCPlan({"c1"}, {"s1"}, {"g1"}, {"h1"}, {}, 2, 0, 0, 0, 0, 3, FALSE),
   MCPlan({"c1"}, {"s1"}, {"g1"}, {"h1"}, {}, 2, 0, 1, 1, 1, 0, TRUE),
   MCPlan({"c1", "c2"}, {"s1"}, {"g1"}, {"h1"}, {"newcomers"}, 2, 0, 0, 0, 0, 0, FALSE)}
=============================================================================
