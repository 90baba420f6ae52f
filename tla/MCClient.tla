------------------------------ MODULE MCClient ------------------------------
\* Instance of Client for TLC: values of the structured constants.
EXTENDS Client

CONSTANTS a1, a2, h, s1, s2

MCSubs    == {s1, s2}
MCClass   == [s \in MCSubs |-> "execution"]
MCHandler == [s \in MCSubs |-> h]
MCFilter  == [s \in MCSubs |-> [account |-> IF s = s2 THEN a2 ELSE None, symbol |-> None]]

\* An execution for another account, without its order.
MCExecution(account, type) ==
    [class |-> "execution", account |-> account, type |-> type,
     order |-> None, position |-> None, deal |-> [volume |-> 2, price |-> 5]]
MCPushes == {MCExecution(a2, 11)}

MCChanges ==
    {<<"limit_price", 7>>, <<"stop_price", 4>>, <<"stop_loss", 3>>, <<"stop_loss", None>>,
     <<"take_profit", 9>>, <<"take_profit", 0>>, <<"relative_stop_loss", 2 * Fine + 1>>, <<"relative_take_profit", Fine - 1>>,
     <<"trailing_stop_loss", TRUE>>, <<"guaranteed_stop_loss", TRUE>>, <<"stop_trigger_method", 3>>,
     <<"side", 2>>, <<"volume", 1>>, <<"slippage_in_points", 6>>, <<"expiration_timestamp", 8 * Fine + 3>>,
     <<"stop_loss_trigger_method", 2>>}

\* Amounts that a message with these digits can say.
MCDigits    == {0, 1, 5, 8}
MCMoney(d)  == {v * Unit(d) : v \in {0 - 12, 0, 34}}
MCCloses    == {None} \cup UNION {{[digits |-> d, profit |-> p, balance |-> b] :
                                   p \in MCMoney(d), b \in MCMoney(d)} : d \in {0, 5}}
MCTruths ==
    [deals    |-> UNION {{[side |-> 2, digits |-> d, commission |-> m, close |-> c] :
                          m \in MCMoney(d), c \in MCCloses} : d \in {0, 1, 8}}
                  \cup {[side |-> 1, digits |-> 2, commission |-> 0, close |-> None]},
     pnl      |-> UNION {{[digits |-> d, pnl |-> p] :
                          p \in {<<>>} \cup {<<[gross |-> m, net |-> 0 - Unit(d)], [gross |-> 7 * Unit(d), net |-> m]>> :
                                             m \in MCMoney(d)}} : d \in MCDigits},
     trader   |-> UNION {{[digits |-> d, balance |-> m, bonus |-> b, rights |-> r] :
                          m \in MCMoney(d), b \in {None} \cup MCMoney(d), r \in {0, 3}} : d \in MCDigits},
     accounts |-> {<<>>, <<[account_id |-> 1, login |-> 11, last_closing_deal |-> None], [account_id |-> 3, login |-> 13, last_closing_deal |-> 0],
                           [account_id |-> 2, login |-> 12, last_closing_deal |-> 6]>>},
     resolve  |-> {None, 1, 2},
     search   |-> {<<>>, <<[id |-> 1, matches |-> TRUE, category |-> None], [id |-> 3, matches |-> TRUE, category |-> 0], [id |-> 2, matches |-> TRUE, category |-> 3]>>},
     symbol   |-> {None} \cup {[id |-> 1, max_exposure |-> e, mode |-> m] : e \in {None, 0, 3}, m \in 0..3},
     bars     |-> {<<>>} \cup {<<[low |-> 5, open |-> o, high |-> 9, close |-> c], [low |-> 2, open |-> 2, high |-> c, close |-> 3]>> :
                               o \in {5, 7, 9}, c \in {5, 6, 9}},
     ticks    |-> {<<>>} \cup {<<[time |-> 9, price |-> p], [time |-> 7, price |-> q], [time |-> 4, price |-> r]>> :
                               p, q, r \in {4, 5, 7}}]
=============================================================================
