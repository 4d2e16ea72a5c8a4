------------------------------ MODULE Leaderboards ------------------------------
(* The leader boards of inviters: the referral service ranks them from     *)
(* time to time (doRefreshLeaderBoards, referral_refresh_leaderboard_rank),*)
(* clients read the ranks (src/api/referral.go).                           *)
EXTENDS Integers, Sequences, FiniteSets, FiniteSetsExt

CONSTANTS
    Ranked,             \* inviters
    ExchangeOf,         \* per inviter its exchange
    InvitedOf,          \* per inviter the set of those linked to it
    BoardExchanges,     \* sequence: SupportedExchangeIds
    BoardPeriods,       \* sequence: "lifetime" and periods that end, as "weekly"
    MaxBoardFills,      \* bound: fills of the invited
    MaxBoardFaults,     \* bound: refreshes that fail
    NoRank

VARIABLES
    recent,             \* app_fill: per invited its volume within the period
    filled,             \* per invited its volume of all times
    lifetimeVolume,     \* referral_volumes: per inviter, NoRank without a row
    board,              \* per period and inviter [volume, rank, previous] or NoRank
    refreshing,         \* number of boards refreshed in this round
    boardFaults

boardVars == <<recent, filled, lifetimeVolume, board, refreshing, boardFaults>>

AllInvited == UNION {InvitedOf[p] : p \in Ranked}
Periods == {BoardPeriods[i] : i \in DOMAIN BoardPeriods}
VolumeOf(volume, p) == MapThenSumSet(LAMBDA n : volume[n], InvitedOf[p])

BoardInit ==
    /\ recent = [n \in AllInvited |-> 0] /\ filled = [n \in AllInvited |-> 0]
    /\ lifetimeVolume = [p \in Ranked |-> NoRank]
    /\ board = [t \in Periods |-> [p \in Ranked |-> NoRank]]
    /\ refreshing = 0 /\ boardFaults = 0

-------------------------------------------------------------------------------
(* External: a fill of an invited profile gets to the database, a period   *)
(* ends, the service adds up the volumes (see Referrals).                  *)
FillArrives(n) ==
    /\ MapThenSumSet(LAMBDA k : filled[k], AllInvited) < MaxBoardFills
    /\ recent' = [recent EXCEPT ![n] = @ + 1] /\ filled' = [filled EXCEPT ![n] = @ + 1]
    /\ UNCHANGED <<lifetimeVolume, board, refreshing, boardFaults>>

PeriodEnds(n) ==
    /\ recent[n] > 0 /\ recent' = [recent EXCEPT ![n] = 0]
    /\ UNCHANGED <<filled, lifetimeVolume, board, refreshing, boardFaults>>

AddUpVolumes ==
    /\ lifetimeVolume' = [p \in Ranked |-> IF VolumeOf(filled, p) = 0 THEN NoRank ELSE VolumeOf(filled, p)]
    /\ lifetimeVolume' # lifetimeVolume
    /\ UNCHANGED <<recent, filled, board, refreshing, boardFaults>>

-------------------------------------------------------------------------------
(* What the query of a period returns for an exchange.                     *)
RankedNow(x, period) ==
    {p \in Ranked : /\ ExchangeOf[p] = x
                    /\ IF period = "lifetime" THEN lifetimeVolume[p] # NoRank ELSE InvitedOf[p] # {}}

VolumeNow(p, period) == IF period = "lifetime" THEN lifetimeVolume[p] ELSE VolumeOf(recent, p)

(* DENSE_RANK() OVER (ORDER BY volume DESC).                               *)
RankNow(p, x, period) ==
    1 + Cardinality({VolumeNow(q, period) : q \in {r \in RankedNow(x, period) :
                                                     VolumeNow(r, period) > VolumeNow(p, period)}})

(* Mutant: a rank remembers the first one for ever.                        *)
PreviousFirst(row) == IF row = NoRank THEN 0 ELSE row.previous

Previous(row) == IF row = NoRank THEN 0 ELSE row.rank

(* One statement: every row that the query returns is set, none deleted.   *)
Refreshed(x, period) ==
    [p \in Ranked |-> IF p \notin RankedNow(x, period) THEN board[period][p]
                      ELSE [volume |-> VolumeNow(p, period), rank |-> RankNow(p, x, period),
                            previous |-> Previous(board[period][p])]]

Boards == Len(BoardExchanges) * Len(BoardPeriods)

(* All periods of an exchange, then the next exchange.                     *)
doRefreshLeaderBoards ==
    LET x == BoardExchanges[refreshing \div Len(BoardPeriods) + 1]
        period == BoardPeriods[(refreshing % Len(BoardPeriods)) + 1]
    IN  /\ board' = [board EXCEPT ![period] = Refreshed(x, period)]
        /\ refreshing' = (refreshing + 1) % Boards
        /\ UNCHANGED <<recent, filled, lifetimeVolume, boardFaults>>

(* A refresh fails, or the service is restarted: the round is over.        *)
RefreshFails ==
    /\ boardFaults < MaxBoardFaults /\ boardFaults' = boardFaults + 1
    /\ refreshing' = 0
    /\ UNCHANGED <<recent, filled, lifetimeVolume, board>>

BoardNext ==
    \/ \E n \in AllInvited : FillArrives(n) \/ PeriodEnds(n)
    \/ AddUpVolumes \/ doRefreshLeaderBoards \/ RefreshFails

BoardSpec == BoardInit /\ [][BoardNext]_boardVars /\ WF_boardVars(doRefreshLeaderBoards)

-------------------------------------------------------------------------------
(* The difference of the ranks goes to an unsigned number: a row with a    *)
(* negative one cannot be scanned, and the answer is an error.             *)
Scannable(row) == row.previous >= row.rank

BoardRows(x, period) == {p \in Ranked : ExchangeOf[p] = x /\ board[period][p] # NoRank}

HandleGetLeaderBoard(x, period) == \A p \in BoardRows(x, period) : Scannable(board[period][p])

(* The inviter's own rows on all boards.                                   *)
getReferralCode(p) == \A period \in Periods : board[period][p] # NoRank => Scannable(board[period][p])

Answered ==
    /\ \A i \in DOMAIN BoardExchanges : \A period \in Periods : HandleGetLeaderBoard(BoardExchanges[i], period)
    /\ \A p \in Ranked : getReferralCode(p)

(* On each exchange the ranks are those of the volumes beside them, equal  *)
(* for equal volumes and without holes, although rows are only ever added  *)
(* and set (referral_refresh_leaderboard_rank).                            *)
BoardInOrder ==
    \A period \in Periods, i \in DOMAIN BoardExchanges :
      LET rows == BoardRows(BoardExchanges[i], period)
      IN  \A p \in rows :
            board[period][p].rank =
              1 + Cardinality({board[period][q].volume :
                                 q \in {r \in rows : board[period][r].volume > board[period][p].volume}})

(* A rank that fell, or is new, makes the board unreadable; once ranks     *)
(* stay as they are, every board can be read (HandleGetLeaderBoard).       *)
BoardsReadable == <>[]Answered

(* Every board has the volumes of now.                                     *)
BoardsAgree ==
    \A period \in Periods : \A p \in Ranked :
        p \in RankedNow(ExchangeOf[p], period) =>
            board[period][p] # NoRank /\ board[period][p].volume = VolumeNow(p, period)

================================================================================
