---------------------------- MODULE MCRecommendations ----------------------------
(***************************************************************************)
(* The shipped policy and a payload that satisfies it, with the changes an *)
(* analyst may make to it.                                                 *)
(***************************************************************************)
EXTENDS StockRecommendations

ThePolicy ==
    [chains |-> 3, organizations |-> 3, sourceAge |-> 120, consensusAge |-> 45,
     dossierAge |-> 1, horizon |-> 540, priceError |-> 1,
     categories |-> {"revenue", "margin", "cash"},
     sourceTypes |-> PrimaryTypes \cup
        {"market_price", "consensus_dataset", "ownership_dataset", "etf_holdings_dataset",
         "short_interest_dataset", "short_sale_volume_dataset", "securities_lending_dataset",
         "options_market_dataset"},
     pillars |-> 2, risks |-> 2, contrary |-> 1, drivers |-> 2, sensitivities |-> 1,
     external |-> 3, roles |-> 2, supporting |-> 3, counter |-> 1, relationships |-> 3,
     topics |-> 3, questions |-> 2, commitments |-> 2, quarters |-> 8, bias |-> 2,
     metrics |-> 4, eventMetrics |-> 2, windowMin |-> 20, windowMax |-> 45,
     materialRevision |-> 1, materialMove |-> 1, holders |-> 5, beneficial |-> 1,
     form4 |-> 2, etfs |-> 2, term |-> 3, ivHistory |-> 252, realized |-> 22,
     openInterest |-> 6, crush |-> 4, shock |-> 2, weights |-> <<20, 50, 75>>,
     eventWeight |-> 20, rewardToRisk |-> 15]

TheRules ==
    [minimum |-> 1, target |-> 2, maximum |-> 3, screening |-> 2, buys |-> 1,
     history |-> 253, price |-> 5, volume |-> 5,
     weights |-> [year |-> 35, half |-> 25, calm |-> 20, trend |-> 20]]

Row(symbol, late, volume, year) ==
    [symbol |-> symbol, days |-> 253, late |-> late, price |-> 10, volume |-> volume,
     year |-> year, half |-> 1, calm |-> -1, trend |-> 1]
TheMarkets ==
    {{Row(1, 0, 9, 2), Row(2, 0, 8, 1), Row(3, 0, 7, 3)},
     {Row(1, 0, 9, -1), Row(2, 0, 8, 1)}, {Row(1, 0, 4, 2), Row(2, 1, 8, 1)}}

SourcesOf(d) ==
    {[id |-> s[1], org |-> s[2], type |-> s[3], seen |-> d - s[4]] : s \in
        {<<"price", "exchange", "market_price", 0>>, <<"oldPrice", "exchange", "market_price", 30>>,
         <<"consensus", "vendor", "consensus_dataset", 0>>,
         <<"oldConsensus", "vendor", "consensus_dataset", 30>>,
         <<"filing", "issuer", "company_filing", 5>>,
         <<"call", "issuer", "earnings_transcript", 5>>,
         <<"oldCall", "issuer", "earnings_transcript", 95>>,
         <<"form", "regulator", "regulatory_filing", 10>>,
         <<"owned", "vendor", "ownership_dataset", 10>>,
         <<"oldOwned", "vendor", "ownership_dataset", 100>>,
         <<"funds", "vendor", "etf_holdings_dataset", 1>>,
         <<"short", "exchange", "short_interest_dataset", 10>>,
         <<"oldShort", "exchange", "short_interest_dataset", 25>>,
         <<"volume", "exchange", "short_sale_volume_dataset", 2>>,
         <<"loans", "vendor", "securities_lending_dataset", 0>>,
         <<"options", "exchange", "options_market_dataset", 0>>,
         <<"customer", "buyer", "company_filing", 5>>,
         <<"supplier", "maker", "company_filing", 5>>,
         <<"rival", "rival", "company_filing", 5>>, <<"peer", "peer", "company_filing", 5>>}}

Drivers(v) ==
    {[id |-> i, value |-> v, share |-> Pct, conversion |-> 1, timing |-> Pct, margin |-> 2,
      src |-> {"filing"}] : i \in 1 .. 2}
EarningsCase(value, likely, bought) ==
    [probability |-> likely, drivers |-> Drivers(value), fixed |-> 1, variable |-> 0,
     interest |-> 1, other |-> 0, tax |-> 1, shares |-> 2, da |-> 1, sbc |-> 1,
     maintenance |-> 1, growth |-> 2, nwc |-> 0, otherCash |-> 0, acquired |-> bought,
     otherCapital |-> 0, prior |-> [revenue |-> 8, income |-> 2, capital |-> 10],
     ending |-> 12 + bought, months |-> 12, lag |-> 6, hurdle |-> 1, src |-> {"filing"}]

Likely(ch) ==
    IF "dismal" \in ch THEN [bear |-> 70, base |-> 20, bull |-> 10]
    ELSE [bear |-> 25, base |-> 50, bull |-> 25]
Earnings(ch) ==
    LET bought == IF "acquisition" \in ch THEN 5 ELSE 0
    IN  [implied |-> 2, consensus |-> 2, impliedSrc |-> {"price"}, consensusSrc |-> {"consensus"},
         scenarios |-> [bear |-> EarningsCase(8, Likely(ch).bear, bought),
                        base |-> EarningsCase(12, Likely(ch).base, bought),
                        bull |-> EarningsCase(16, Likely(ch).bull, bought)],
         sensitivities |-> {[id |-> 1, shocks |-> [i \in {1} |-> -2], src |-> {"filing"}]}]
Cases(ch) ==
    LET prices == IF "dismal" \in ch THEN <<60, 160, 170>> ELSE <<80, 140, 180>>
        Case(i, n) == [price |-> prices[i], probability |-> Likely(ch)[n], src |-> {"filing"}]
    IN  [bear |-> Case(1, "bear"), base |-> Case(2, "base"), bull |-> Case(3, "bull")]

Adjusted(pay) ==
    {[id |-> i, location |-> "operating", src |-> {"filing"},
      prior |-> [pretax |-> IF i = "stock_based_compensation" THEN -1 ELSE 0,
                 net |-> IF i = "stock_based_compensation" THEN pay ELSE 0],
      current |-> [pretax |-> IF i = "one_off_gain" THEN 1 ELSE 0,
                   net |-> IF i = "one_off_gain" THEN 1 ELSE 0]] : i \in AdjustmentIds}
Period(income, recurring, tax, shares, buyback, pretax, net) ==
    [revenue |-> 8 + income, receivables |-> 2, inventory |-> income, contract |-> 0,
     deferred |-> 1, assets |-> 20, depreciation |-> 1, capex |-> 1, cash |-> 4,
     shares |-> shares, buyback |-> buyback, tax |-> tax, income |-> income,
     recurring |-> recurring, gaapIncome |-> income + pretax,
     gaapPretax |-> income + recurring + pretax,
     gaapNet |-> (income + recurring) * (Pct - tax) + net * Pct,
     coreNet |-> (income + recurring) * (Pct - tax)]
Quality(ch) ==
    LET pay == IF "noEarnings" \in ch THEN -3 ELSE -1
    IN  [priorPeriod |-> 1, currentPeriod |-> 2, src |-> {"filing"},
         adjustments |-> Adjusted(pay),
         prior |-> Period(4, 0, 1, 10, 0, -1, pay),
         current |-> Period(6, -1, IF "tax" \in ch THEN 2 ELSE 1, 9, 2, 1, 1)]

Companies(s, ch) ==
    {[id |-> e[1], role |-> e[2], org |-> e[3], identifier |-> IF e[1] = "self" THEN s ELSE 0] :
        e \in {<<"self", "subject_company", "issuer">>, <<"customer", "customer", "buyer">>,
               <<"supplier", "supplier", IF "sameGroup" \in ch THEN "buyer" ELSE "maker">>,
               <<"rival", "competitor", "rival">>, <<"peer", "industry_peer", "peer">>}}
Signals(ch) ==
    {[id |-> g[1], entity |-> g[1], relationships |-> {IF g[1] = "self" THEN "customer" ELSE g[1]},
      subject |-> g[2], prior |-> 1, current |-> 2, src |-> {g[3]}] :
        g \in {<<"self", "increase", "filing">>, <<"customer", "increase", "customer">>,
               <<"supplier", "increase", IF "sameGroup" \in ch THEN "customer" ELSE "supplier">>,
               <<"rival", "increase", "rival">>, <<"peer", "decrease", "peer">>}}
Supply(s, ch) ==
    [expected |-> "increase", entities |-> Companies(s, ch), signals |-> Signals(ch),
     relationships |->
        {[id |-> r[1], from |-> r[1], to |-> "self", type |-> r[2], lag |-> 2, src |-> {"filing"}] :
           r \in {<<"customer", "customer_of">>, <<"supplier", "supplier_to">>,
                  <<"rival", "competes_with">>, <<"peer", "peer_of">>}},
     src |-> {"filing"}]

Call(d, src, ago, answer) ==
    [src |-> {src}, date |-> d - ago,
     topics |-> [demand |-> [confidence |-> 2], costs |-> [confidence |-> 1],
                 capital |-> [confidence |-> 3]],
     questions |-> [q1 |-> [response |-> answer], q2 |-> [response |-> "partial"]],
     guidance |-> [revenue |-> [metric |-> "revenue", low |-> 8, high |-> 12]]]
CallDiff(d) ==
    [prior |-> Call(d, "oldCall", 95, "answered"), current |-> Call(d, "call", 5, "evaded"),
     history |-> {[period |-> i, ends |-> d - 10 * i, favorable |-> "higher", low |-> 90,
                   high |-> 110, actual |-> 103, src |-> {"filing"}] : i \in 1 .. 8},
     commitments |-> {[id |-> i, status |-> "met", src |-> {"filing"}] : i \in 1 .. 2},
     src |-> {"filing"}]

Filed13f(d, src, ago, shares) ==
    [report |-> d - ago - 5, snapshot |-> d - ago, shares |-> shares, managers |-> 4, src |-> {src}]
Ownership(d) ==
    [outstanding |-> 100, prior13f |-> Filed13f(d, "oldOwned", 100, 60),
     current13f |-> Filed13f(d, "owned", 10, 65),
     holders |-> {[id |-> i, style |-> "active", shares |-> 5, src |-> {"owned"}] : i \in 1 .. 5},
     beneficial |-> {[id |-> 1, event |-> d - 12, filed |-> d - 10, percent |-> 6, src |-> {"form"}]},
     form4 |-> {[id |-> i, direction |-> "acquired", traded |-> d - 11, filed |-> d - 10,
                 shares |-> 1, price |-> 90, src |-> {"form"}] : i \in 1 .. 2},
     funds |-> {[id |-> i, snapshot |-> d - 1, shares |-> 2, src |-> {"funds"}] : i \in 1 .. 2}]
Interest(d, src, ago, short) ==
    [settled |-> d - ago - 5, published |-> d - ago, short |-> short, float |-> 80, volume |-> 5,
     src |-> {src}]
Strikes(d, ch) ==
    {[expiry |-> d + 30, strike |-> k, right |-> r,
      contracts |-> IF "untied" \in ch /\ r = "put" THEN k + 10 ELSE k] :
        k \in {90, 100, 110}, r \in {"call", "put"}}
Backwards(order) == {<<p[2], p[1]>> : p \in order}
Options(d, price, ch) ==
    [date |-> d, spot |-> price, src |-> {"options"},
     term |-> {[expiry |-> d + 30 * i, iv |-> 20 + i] : i \in 1 .. 3},
     ivHistory |-> [observations |-> 252, below |-> 100],
     prices |-> [observations |-> 22, last |-> price],
     openInterest |-> Strikes(d, ch),
     move |-> [event |-> d + 20, expiry |-> d + 30, call |-> 4, put |-> 3],
     crush |-> {[event |-> d - 90 * i, before |-> 40, after |-> 30, src |-> {"options"}] :
                  i \in 1 .. 4}]
Positioning(d, price, ch) ==
    [ownership |-> Ownership(d),
     short |-> [prior |-> Interest(d, "oldShort", 25, 4), current |-> Interest(d, "short", 10, 3),
                window |-> [start |-> d - 5, end |-> d - 2, short |-> 2, total |-> 9,
                            src |-> {"volume"}],
                borrow |-> [state |-> "available", date |-> d, shares |-> 9, src |-> {"loans"}]],
     options |-> Options(d, price, ch),
     futures |-> [applicability |-> "not_applicable", positions |-> {}, src |-> {}],
     src |-> {"owned"}]

Estimate(d, src, ago, value) ==
    [date |-> d - ago, analysts |-> 12, value |-> value, src |-> {src}]
Target(d, src, ago) ==
    [date |-> d - ago, analysts |-> 12, low |-> 80, p25 |-> 100, median |-> 120 - ago \div 2,
     p75 |-> 130, high |-> 150, mean |-> 115, src |-> {src}]
Revision(d, price) ==
    [metrics |-> {[id |-> t, type |-> t, prior |-> Estimate(d, "oldConsensus", 30, 100),
                   current |-> Estimate(d, "consensus", 0, 103)] :
                     t \in {"fy1_eps", "fy2_eps", "revenue", "free_cash_flow"}},
     targets |-> [prior |-> Target(d, "oldConsensus", 30), current |-> Target(d, "consensus", 0)],
     event |-> [date |-> d - 5,
                metrics |-> {[id |-> t, type |-> t, before |-> Estimate(d, "oldConsensus", 30, 100),
                              after |-> Estimate(d, "consensus", 0, 103)] :
                                t \in {"fy1_eps", "revenue"}}],
     window |-> 30,
     breadth |-> [start |-> d - 30, end |-> d, raised |-> 6, lowered |-> 2, unchanged |-> 4,
                  src |-> {"consensus"}],
     price |-> [before |-> d - 30, now |-> d, prior |-> 110, current |-> price,
                src |-> {"oldPrice", "price"}],
     src |-> {"consensus"}]

Chains ==
    {[id |-> c, category |-> c, favorable |-> IF c = "cash" THEN "lower" ELSE "higher",
      consensus |-> [value |-> 10, src |-> {"consensus"}],
      implied |-> [value |-> 10, model |-> 100, assumptions |-> <<{"filing"}, {"price"}>>,
                   src |-> {"price"}],
      house |-> [value |-> 12, src |-> {"filing"}], catalysts |-> {1}] :
        c \in {"revenue", "margin", "cash"}}

Held(ch) ==
    IF "watch" \in ch
    THEN [initial |-> 0, target |-> 0, maximum |-> 0, event |-> 0, entry |-> <<95, 105>>, budget |-> 0]
    ELSE [initial |-> 20, target |-> 50, maximum |-> 75, event |-> 20, entry |-> <<95, 105>>,
          budget |-> 100]

ThePayload(s, d, ch) ==
    [symbol |-> s, asOf |-> d, price |-> 100, priceSrc |-> {"price"}, sources |-> SourcesOf(d),
     recommendation |-> IF "watch" \in ch THEN "watch" ELSE "buy",
     horizon |-> 12, pillars |-> 2, conviction |-> 70,
     catalysts |-> {[id |-> 1, start |-> d + 20, end |-> d + 40, src |-> {"filing"}]},
     chains |-> Chains, revision |-> Revision(d, 100), earnings |-> Earnings(ch),
     quality |-> Quality(ch), supply |-> Supply(s, ch), call |-> CallDiff(d),
     positioning |-> Positioning(d, 100, ch),
     listed |-> IF "putsFirst" \in ch THEN Backwards(AsStored(Strikes(d, ch)))
                ELSE AsStored(Strikes(d, ch)),
     cases |-> Cases(ch), position |-> Held(ch),
     risks |-> [risks |-> {[id |-> i, src |-> {"filing"}] : i \in 1 .. 2},
                contrary |-> {[id |-> 1, src |-> {"peer"}]}]]

TheDrafts ==
    {[symbol |-> 1, changes |-> c] :
        c \in {{}, {"watch", "dismal"}, {"sameGroup"},
              {"acquisition", "tax"}, {"noEarnings"}}}
    \cup {[symbol |-> 2, changes |-> {}], [symbol |-> 2, changes |-> {"putsFirst", "untied"}]}
ListedDrafts == {[symbol |-> 1, changes |-> c] : c \in {{}, {"putsFirst"}}}
TheLegacy == {[name |-> 0, schema |-> "v8", symbol |-> 2]}

(* A second day only for the verdict on symbol 1; runs, and damage to a    *)
(* single file, with the drafts put away.                                  *)
Undamaged(f) ==
    f.schema = "current" => f.dossier.digest = f.dossier.body
                            /\ f.dossier.body.earnings.scenarios.base.results.net # 0
DossierScenario ==
    /\ today > FirstDay => \A d \in draft : d.symbol = 1 /\ d.changes \in {{}, {"watch", "dismal"}}
    /\ today > FirstDay + 1 \/ latest # None \/ failed => draft = {}
    /\ (\A f \in files : Undamaged(f)) \/ Cardinality(files \ Legacy) = 1
=============================================================================
