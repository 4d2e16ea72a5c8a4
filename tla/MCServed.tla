-------------------------------- MODULE MCServed --------------------------------
(* Instances for TLC of what people see in the end: a withdrawal, points,  *)
(* a link to an inviter, a place on a board, a price, a list.  A behaviour *)
(* is one of a single component, the one in focus; the others stand still. *)
EXTENDS MCWithdrawals, GameAssets, BlastPoints, Invitations, Leaderboards, Streams,
        Pages

CONSTANTS wa, wb, wc, ra, rb, n1, n2, n3, abc, ABC, xyz, g1, g2

(* Two batches of one contract, one of another.                            *)
PointsTo(w, n) == [to |-> w, points |-> n]
ThreeBatches ==
    << [contract |-> 1, kind |-> "LIQUIDITY", final |-> 2, transfers |-> <<PointsTo(wa, 1), PointsTo(wb, 2)>>],
       [contract |-> 1, kind |-> "DEVELOPER", final |-> 1, transfers |-> <<PointsTo(wa, 4)>>],
       [contract |-> 2, kind |-> "LIQUIDITY", final |-> 3, transfers |-> <<PointsTo(wa, 3)>>] >>

(* Two texts of one code.                                                  *)
Lowered == abc :> abc @@ ABC :> abc @@ xyz :> xyz

(* Two inviters on one exchange, one on another.                           *)
OnTwoExchanges == wa :> "rbx" @@ wb :> "rbx" @@ wc :> "bfx"
OneInvitedEach == wa :> {n1} @@ wb :> {n2} @@ wc :> {n3}
TwoExchanges == <<"rbx", "bfx">>
TwoPeriods == <<"lifetime", "weekly">>

TwoMarkets == <<"m1", "m2">>

(* Two posts of one batch, a later batch in parts, and one trade posted    *)
(* twice.                                                                  *)
Blast(g, b, n, v) == [gamer |-> g, batch |-> b, points |-> n, boost |-> v]
Bfx(g, b, n, t) == [gamer |-> g, batch |-> b, points |-> n, time |-> t]
BlastFiles == { <<Blast(g1, 1, 5, 0)>>, <<Blast(g1, 2, 6, 1), Blast(g2, 1, 6, 1)>>,
                <<Blast(g1, 1, 8, 0), Blast(g1, 2, 9, 0)>> }
BfxFiles == { <<Bfx(g1, 1, 2, 5), Bfx(g1, 1, 3, 4)>>, <<>> }
OneStep == <<1>>

-------------------------------------------------------------------------------
VARIABLE focus

servedVars == <<focus, vars, assetVars, pointVars, inviteVars, boardVars, streamVars, listVars>>

ServedInit ==
    /\ focus \in {"withdrawals", "assets", "points", "invitations", "boards", "orderbook", "statistics",
                 "pages"}
    /\ Init /\ AssetsInit /\ PointsInit /\ InviteInit /\ BoardInit /\ StreamInit /\ ListsInit
    /\ focus # "points" => \A b \in PointBatches : batchStatus[b] = "none"
    /\ focus = "statistics" <=> pusher.row # 0
    /\ focus # "pages" => listKind = "fills" /\ Listed = {}
    /\ \A r, s \in ListRows : r < s => listKey[r] <= listKey[s]      \* rows are alike

(* A step of one component leaves the variables of the others alone.       *)
Only(x) ==
    /\ focus = x /\ UNCHANGED focus
    /\ x # "withdrawals" => UNCHANGED vars
    /\ x # "assets" => UNCHANGED assetVars
    /\ x # "points" => UNCHANGED pointVars
    /\ x # "invitations" => UNCHANGED inviteVars
    /\ x # "boards" => UNCHANGED boardVars
    /\ x \notin {"orderbook", "statistics"} => UNCHANGED streamVars
    /\ x # "pages" => UNCHANGED listVars

ServedNext ==
    \/ Only("withdrawals") /\ Next
    \/ Only("assets") /\ AssetsNext
    \/ Only("points") /\ PointsNext
    \/ Only("invitations") /\ InviteNext
    \/ Only("boards") /\ BoardNext
    \/ Only("orderbook") /\ OrderBookNext
    \/ Only("statistics") /\ PusherNext
    \/ Only("pages") /\ ListsNext

(* The fairness of the component in focus, as its module states it; the    *)
(* disjuncts of a condition belong to different components.                *)
ServedFairness ==
    /\ WF_servedVars(\/ Only("withdrawals") /\ RequestStep(r1)
                     \/ Only("points") /\ UpdaterStep
                     \/ Only("invitations") /\ OnboardingStep("q1")
                     \/ Only("boards") /\ doRefreshLeaderBoards
                     \/ Only("statistics") /\ sendMarketViewData)
    /\ WF_servedVars(\/ Only("withdrawals") /\ TickStep
                     \/ Only("invitations") /\ OnboardingStep("q2"))
    /\ WF_servedVars(Only("withdrawals") /\ ScanStep)
    /\ WF_servedVars(Only("withdrawals") /\ Mine)

ServedSpec == ServedInit /\ [][ServedNext]_servedVars /\ ServedFairness

-------------------------------------------------------------------------------
(* Boards catch up with the volumes in spite of rounds that break off      *)
(* (doRefreshLeaderBoards).                                                *)
BoardsCatchUpInFocus == <>[](focus = "boards" => BoardsAgree)

(* Ranks are those of the volumes, can be read, and catch up               *)
(* (doRefreshLeaderBoards, HandleGetLeaderBoard).                          *)
BoardsRightInFocus ==
    []BoardInOrder /\ BoardsReadable /\ BoardsCatchUpInFocus

================================================================================
