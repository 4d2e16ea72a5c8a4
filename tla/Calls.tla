--------------------------------- MODULE Calls ---------------------------------
(* The contract between the Go services and the Tarantool roles: the calls *)
(* that ApiModel, ApiSecretModel and FrontendSecretModel make              *)
(* (src/model/api*.go, auth.go), each with the instance it is sent to, the *)
(* procedure it names and the arguments in the order they are put on the   *)
(* wire, and the procedures that a role publishes with their parameters.   *)
(* Arguments are named for what they mean, so that a swapped pair differs. *)
(* The calls that only the Go tests make (api-test.go, debug.go) are left  *)
(* out.                                                                    *)
EXTENDS Sequences, TLC

(* A call: the role that is asked, the module and the procedure, the       *)
(* arguments.  GetCandles alone takes the market id for the title of the   *)
(* instance; the other calls to markets look the title up (ByMarketID).    *)
Call(role, module, procedure, args) ==
    [role |-> role, byTitle |-> FALSE, module |-> module, procedure |-> procedure, args |-> args]
AtProfile(module, procedure, args) == Call("profile", module, procedure, args)
AtGateway(module, procedure, args) == Call("api-gateway", module, procedure, args)
AtMarket(module, procedure, args) == Call("market", module, procedure, args)
AtAuth(procedure, args) == Call("auth", "global", procedure, args)
AtPubsub(procedure, args) == Call("pubsub", "global", procedure, args)
AtTitle(module, procedure, args) == [AtMarket(module, procedure, args) EXCEPT !.byTitle = TRUE]

-------------------------------------------------------------------------------
(* What the Go side sends.                                                 *)

LockCalls ==
  [ AcquireStakeLock |-> AtProfile("balance", "acquire_stake_lock", <<"profile">>),
    ReleaseStakeLock |-> AtProfile("balance", "release_stake_lock", <<"profile">>),
    AcquireUnstakeLock |-> AtProfile("balance", "acquire_unstake_lock", <<"profile">>),
    ReleaseUnstakeLock |-> AtProfile("balance", "release_unstake_lock", <<"profile">>),
    AcquireWithdrawLock |-> AtProfile("balance", "acquire_withdraw_lock", <<"profile">>),
    ReleaseWithdrawLock |-> AtProfile("balance", "release_withdraw_lock", <<"profile">>),
    CheckWithdrawAllowed |-> AtProfile("balance", "check_withdraw_allowed", <<"profile">>),
    CancelWithdrawal |-> AtProfile("balance", "cancel_withdrawal", <<"profile", "ops">>) ]

StakeCalls ==
  [ CreateStake |-> AtProfile("balance", "create_stake", <<"staker", "vaultWallet", "amount",
                                                           "tx", "exchange", "chain">>) ]

DepositCalls ==
  [ ClaimWithdrawal |-> AtProfile("balance", "claim_withdrawal", <<"profile", "ops">>),
    CreateDeposit |-> AtProfile("balance", "create_deposit", <<"profile", "wallet", "amount",
        "tx", "exchange", "chain">>),
    ProcessDeposit |-> AtProfile("balance", "process_deposit", <<"profile", "wallet", "deposit",
        "amount", "tx", "pooled", "exchange", "chain", "contract">>),
    ProcessDepositUnknown |-> AtProfile("balance", "process_deposit_unknown", <<"wallet",
        "deposit", "amount", "tx", "exchange", "chain", "contract">>),
    ProcessYield |-> AtProfile("cache", "process_yield_and_invalidate", <<"yield", "amount",
        "tx", "exchange", "chain", "contract">>) ]

VaultCalls ==
  [ InitVault |-> AtProfile("balance", "init_vault", <<"vault", "manager", "treasurer", "fee">>),
    ReactivateVault |-> AtProfile("balance", "reactivate_vault", <<"vault">>),
    ProcessStake |-> AtProfile("balance", "process_stake", <<"staker", "vault", "vaultWallet",
                                                             "stake", "amount", "nav", "tx",
                                                             "fromBalance", "exchange">>) ]

ShareCalls ==
  [ CreateWithdrawal |-> AtProfile("balance", "create_withdrawal", <<"profile", "wallet",
        "amount", "exchange">>),
    CreateUnstake |-> AtProfile("balance", "create_unstake", <<"staker", "vault", "vaultWallet",
        "shares", "exchange", "chain">>),
    GetVaultInfo |-> AtProfile("balance", "get_vault_info", <<"vault">>),
    GetVaultHoldingInfo |-> AtProfile("balance", "get_holding_info", <<"vault", "staker">>),
    CancelUnstake |-> AtProfile("balance", "cancel_unstake", <<"profile", "ops">>),
    ProcessUnstakes |-> AtProfile("balance", "process_unstakes", <<"vault", "from", "to", "nav",
        "withdrawable", "fee", "treasurer", "shares", "exchange">>),
    GetVaultManagerProfileId |-> AtProfile("balance", "get_vault_manager_profile_id",
        <<"vault">>) ]

WithdrawalCalls ==
  [ PendingDepositCanceled |-> AtProfile("balance", "pending_deposit_canceled", <<"ops">>),
    GetPendingDeposits |-> AtProfile("balance", "get_pending_deposits", <<"exchange", "chain">>),
    GetPendingStakes |-> AtProfile("balance", "get_pending_stakes", <<"exchange", "chain">>),
    GetPendingWithdrawals |-> AtProfile("balance", "get_pending_withdrawals", <<"exchange",
        "chain">>),
    GetAllPendingWithdrawals |-> AtProfile("balance", "get_all_pending_withdrawals", <<>>),
    CompletedWithdrawals |-> AtProfile("balance", "completed_withdrawals", <<"withdrawals">>),
    GetWithdrawalsSuspended |-> AtProfile("balance", "get_withdrawals_suspended", <<>>),
    SuspendWithdrawals |-> AtProfile("balance", "suspend_withdrawals", <<>>),
    UpdatePendingWithdrawals |-> AtProfile("balance", "update_pending_withdrawals", <<"block",
        "dueBlock", "contract">>),
    ProcessingWithdrawal |-> AtProfile("balance", "processing_withdrawal", <<"profile", "tx",
        "ops">>) ]

SettlementCalls ==
  [ GetLastProcessedBlockNumber |-> AtProfile("balance", "get_last_processed_block_number",
        <<"contract", "chain", "event">>),
    SetLastProcessedBlockNumber |-> AtProfile("balance", "set_last_processed_block_number",
        <<"block", "contract", "chain", "event">>),
    GetSettlementState |-> AtProfile("balance", "get_settlement_state", <<>>),
    GetProcessingOps |-> AtProfile("balance", "get_processing_ops", <<>>),
    MergeUnknown |-> AtProfile("profile", "merge_unknown_ops", <<>>),
    DeleteUnknown |-> AtProfile("balance", "delete_unknown_ops", <<>>),
    AddContractMap |-> AtProfile("balance", "add_to_contract_map", <<"contract", "chain",
        "exchange">>),
    MaxWithdrawAmount |-> AtProfile("balance", "max_withdraw_amount", <<>>),
    Rolling24hWds |-> AtProfile("profile", "wds_per_24h", <<>>) ]

(* GetTiers and GetSpecialTiers ask the profile instance when they are     *)
(* given its title for the market.                                         *)
TierCalls ==
  [ GetTiers |-> AtMarket("profile", "get_tiers", <<>>),
    GetTiersOfProfile |-> AtProfile("profile", "get_tiers", <<>>),
    GetSpecialTiersOfProfile |-> AtProfile("profile", "get_special_tiers", <<>>),
    GetSpecialTiers |-> AtMarket("profile", "get_special_tiers", <<>>),
    GetProfileTiers |-> AtMarket("profile", "get_profile_tiers", <<>>),
    AddTier |-> AtMarket("profile", "add_tier", <<"tier", "title", "makerFee", "takerFee",
                                                  "minVolume", "minAssets">>),
    AddSpecialTier |-> AtMarket("profile", "add_special_tier", <<"tier", "title", "makerFee",
        "takerFee">>),
    AddProfileToTier |-> AtMarket("profile", "add_profile_to_special_tier", <<"profile",
        "tier">>) ]

TierEditCalls ==
  [ EditTier |-> AtMarket("profile", "edit_tier", <<"tier", "title", "makerFee", "takerFee",
                                                    "minVolume", "minAssets">>),
    EditSpecialTier |-> AtMarket("profile", "edit_special_tier", <<"tier", "title", "makerFee",
        "takerFee">>),
    RemoveTier |-> AtMarket("profile", "remove_tier", <<"tier">>),
    RemoveSpecialTier |-> AtMarket("profile", "remove_special_tier", <<"tier">>),
    RemoveProfileTier |-> AtMarket("profile", "remove_profile_from_tier", <<"profile">>) ]

AdminCalls ==
  [ BalanceOpsList |-> AtProfile("getters", "list_operations", <<"profile", "offset", "limit">>),
    MarketUpdateIconUrl |-> AtMarket("market", "update_icon_url", <<"market", "url">>),
    MarketUpdateTitle |-> AtMarket("market", "update_market_title", <<"market", "title">>),
    WhichTier |-> AtMarket("profile", "getter_which_tier", <<"profile">>) ]

TradingTierCalls ==
  [ GetTradingTiers |-> AtProfile("getters", "get_tiers", <<>>),
    GetAffiliateProfilesTiers |-> AtProfile("getters", "get_affiliate_profiles_tiers",
        <<"profiles">>),
    GetProfilesSpecialTiers |-> AtProfile("getters", "get_profiles_special_tiers", <<>>),
    UpdateMarketProfilesToTiers |-> AtMarket("setters", "update_profiles_to_tiers",
        <<"profilesTiers">>) ]

AirdropCalls ==
  [ CreateAirdrop |-> AtProfile("airdrop", "create_airdrop", <<"title", "from", "to">>),
    GetProfileAirdrops |-> AtProfile("airdrop", "get_profile_airdrops", <<"profile">>),
    SetProfileTotal |-> AtProfile("airdrop", "set_profile_total", <<"profile", "airdropTitle",
        "totalRewards", "claimable">>),
    UpdateProfileClaimable |-> AtProfile("airdrop", "update_profile_claimable", <<"profile",
        "airdropTitle">>),
    ProfileClaimAll |-> AtProfile("airdrop", "claim_all", <<"profile", "airdropTitle">>),
    PendingClaimOps |-> AtProfile("airdrop", "pending_claim", <<"profile">>),
    FinishClaim |-> AtProfile("airdrop", "finish_claim", <<"profile">>),
    UpdateAllProfileAirdrops |-> AtProfile("airdrop", "update_all_profile_airdrops",
        <<"profile">>),
    TestAirdropResetAll |-> AtProfile("airdrop", "delete_all_airdrops", <<"title", "from", "to",
        "profile", "totalRewards", "claimable">>),
    TestCreateClaimOps |-> AtProfile("airdrop", "test_create_claim_ops", <<"profile",
        "airdropTitle", "claimable">>),
    TestGetClaimOps |-> AtProfile("airdrop", "test_get_claim_ops", <<"ops">>) ]

DeadmanCalls ==
  [ DeadmanCreate |-> AtGateway("public", "deadman_create", <<"profile", "timeout">>),
    DeadmanDelete |-> AtGateway("public", "deadman_delete", <<"profile">>),
    DeadmanGet |-> AtGateway("public", "deadman_get", <<"profile">>) ]

LiquidationCalls ==
  [ UpdateInsuranceId |-> AtMarket("profile", "update_insurance_id", <<"insuranceId", "market">>),
    CreateInsuranceProfile |-> AtProfile("profile", "create", <<"profileType", "status",
        "wallet", "exchange">>),
    HighPriorityCancelAll |-> AtGateway("internal", "high_priority_cancell_all", <<"profile",
        "isLiquidation">>),
    IsCancellAllAccepted |-> AtGateway("internal", "is_cancel_all_accepted", <<"profile">>),
    GetWinningPositions |-> AtMarket("position", "get_winning_positions", <<"side">>),
    CachedIsInv3Valid |-> AtProfile("getters", "cached_is_inv3_valid", <<"buffer">>),
    IsInv3Valid |-> AtProfile("getters", "is_inv3_valid", <<"buffer">>),
    QueueLiqActions |-> AtGateway("internal", "queue_liq_actions", <<"actions">>),
    LiquidatedVaults |-> AtGateway("profile", "liquidated_vaults", <<"vaults">>),
    LiquidationBatch |-> AtProfile("getters", "liquidation_batch", <<"lastIdChecked", "limit">>),
    ProfileUpdateStatus |-> AtProfile("profile", "update_status", <<"profile", "newStatus">>),
    ProfileUpdateLastLiqChecked |-> AtProfile("profile", "update_last_checked", <<"profile">>) ]

PubsubCalls ==
  [ PublishBatch |-> AtPubsub("publish_data_batch", <<"batch", "ttl", "size", "metaTtl">>) ]

ReferralCalls ==
  [ CreateReferralPayout |-> AtMarket("balance", "create_referral_payout", <<"id", "profile",
        "amount">>),
    ProcessReferralPayout |-> AtMarket("profile", "process_referral_payout", <<"market">>) ]

PermissionCalls ==
  [ IsValidSigner |-> AtProfile("profile", "is_valid_signer", <<"vault", "wallet", "role">>),
    AddPermission |-> AtProfile("profile", "add_permission", <<"vault", "wallet", "role">>) ]

OrderCalls ==
  [ WriteFrontendStorage |-> AtAuth("write_frontend_storage", <<"profile", "data">>),
    ReadFrontendStorage |-> AtAuth("read_frontend_storage", <<"profile">>),
    CancelAll |-> AtGateway("public", "cancel_all", <<"profile", "isLiquidation">>),
    OrderCancel |-> AtGateway("public", "cancel_order", <<"profile", "market", "orderId",
                                                          "clientOrderId">>),
    OrderAmend |-> AtGateway("public", "amend_order", <<"profile", "market", "orderId", "price",
                                                        "size", "triggerPrice", "sizePercent">>),
    OrderCreate |-> AtGateway("public", "new_order", <<"profile", "market", "orderType", "side",
                                                       "price", "size", "clientOrderId",
                                                       "triggerPrice", "sizePercent",
                                                       "timeInForce", "customOrderId", "meta">>),
    OrderExecute |-> AtGateway("internal", "execute_order", <<"profile", "market", "orderId">>),
    CreateProfile |-> AtProfile("profile", "create", <<"profileType", "status", "wallet",
                                                       "exchange">>) ]

DataCalls ==
  [ GetProfileById |-> AtProfile("profile", "get", <<"profile">>),
    GetProfileByWalletForExchangeId |-> AtProfile("profile", "get_by_wallet_for_exchange_id",
        <<"wallet", "exchange">>),
    UpdateIndexPrice |-> AtMarket("market", "update_index_price", <<"market", "indexPrice">>),
    GetMarketData |-> AtMarket("market", "get_market_data", <<"market">>),
    GetFundingMeta |-> AtMarket("market", "get_funding_meta", <<"market">>),
    PayFunding |-> AtMarket("engine", "pay_funding", <<"market", "fundingPayments",
                                                       "lastUpdateTime", "totalLong",
                                                       "totalShort">>),
    GetProfileData |-> AtProfile("getters", "get_profile_data", <<"profile">>),
    GetExtendedProfileData |-> AtProfile("getters", "get_extended_profile_data", <<"profile">>),
    GetOrderbookData |-> AtMarket("engine", "get_orderbook_data", <<"market">>) ]

MarketCalls ==
  [ GetTrades |-> AtMarket("trade", "get_trade_data", <<"limit">>),
    GetAllActivePositions |-> AtMarket("position", "get_all_active_positions", <<"market",
        "offset", "limit">>),
    GetOpenPositions |-> AtProfile("getters", "get_open_positions", <<"profile">>),
    GetRequestedUnstakes |-> AtProfile("getters", "get_requested_unstakes", <<"profile">>),
    GetAllOrders |-> AtMarket("order", "get_all_orders", <<"profile", "limit">>),
    GetOpenOrders |-> AtProfile("getters", "get_open_orders", <<"profile", "market">>),
    GetPlacedOrders |-> AtMarket("order", "get_all_orders2", <<"profile", "orderStatus",
        "orderType">>),
    GetCandles |-> AtTitle("candles", "get_candles", <<"period", "timeFrom", "timeTo">>),
    UpdateLeverage |-> AtMarket("profile", "update_leverage", <<"profile", "market",
        "leverage">>) ]

CacheCalls ==
  [ GetExchangeData |-> AtProfile("getters", "get_exchange_data", <<>>),
    GetProfileCache |-> AtProfile("cache", "get_cache", <<"profile">>),
    InvalidateCache |-> AtProfile("cache", "invalidate_cache", <<"profile">>),
    InvalidateCacheAndNotify |-> AtProfile("cache", "invalidate_cache_and_notify", <<"profile">>),
    GetProfilesMetaAfterTs |-> AtMarket("profile", "get_profiles_meta_after_ts", <<"ts">>),
    GetExtendedProfiles |-> AtProfile("getters", "get_extended_profiles", <<"profiles">>),
    UpdateProfilesCachesAndMetas |-> AtProfile("setters", "update_profiles_caches_and_metas",
        <<"data">>),
    ArchiverGetNextBatch |-> AtMarket("archiver", "get_next_batch", <<"space", "fromArchiveId",
        "limit">>) ]

KeyCalls ==
  [ UpdateApiSecretExpire |-> AtAuth("api_update_api_secret_expire", <<"key", "newExpiredAt">>),
    RefreshSecret |-> AtAuth("api_refresh_secret", <<"profile", "refreshToken", "newJwt",
                                                     "newRefreshToken", "newExpiredAt">>),
    GetSecrets |-> AtAuth("api_list_secrets", <<"profile">>),
    CreatePair |-> AtAuth("api_secret_pair_create", <<"apiSecret", "jwt", "refreshToken",
                                                      "ips">>),
    DeletePairForProfile |-> AtAuth("api_delete_secret_key", <<"profile", "key">>),
    ValidateApiKey |-> AtAuth("api_secret_validate", <<"key", "ip", "now">>),
    GetByKey |-> AtAuth("api_secret_by_key", <<"key">>) ]

SecretCalls ==
  [ GetOrRefreshSecretByProfileID |-> AtAuth("get_or_refresh_api_secret_by_profile_id",
        <<"profile", "newApiSecret">>),
    GetByProfileID |-> AtAuth("api_secret_by_profile_id", <<"profile">>),
    RemoveSessionSecrets |-> AtAuth("remove_session_secrets", <<"profile">>) ]

SessionCalls ==
  [ Create |-> AtAuth("frontend_secret_create", <<"frontendSecret", "oldJwt">>),
    GetByJwt |-> AtAuth("frontend_secret_by_jwt", <<"jwt">>),
    GetByRefreshToken |-> AtAuth("frontend_secret_by_refresh_token", <<"refreshToken">>),
    Update |-> AtAuth("frontend_secret_update", <<"frontendSecret">>) ]

(* Every call by the name of the method that makes it.                     *)
Sent ==
    LockCalls @@ StakeCalls @@ DepositCalls @@ VaultCalls @@ ShareCalls @@
    WithdrawalCalls @@ SettlementCalls @@ TierCalls @@ TierEditCalls @@ AdminCalls @@
    TradingTierCalls @@ AirdropCalls @@ DeadmanCalls @@ LiquidationCalls @@ PubsubCalls
    @@ ReferralCalls @@ PermissionCalls @@ OrderCalls @@ DataCalls @@ MarketCalls @@
    CacheCalls @@ KeyCalls @@ SecretCalls @@ SessionCalls

-------------------------------------------------------------------------------
(* What the roles publish.  A parameter that may be left out is not        *)
(* listed.                                                                 *)

BalanceHandlers ==
  [ max_withdraw_amount |-> <<>>, add_to_contract_map |-> <<"contract", "chain", "exchange">>,
    init_vault |-> <<"vault", "vaultName", "manager", "managerName", "treasurer", "fee">>,
    reactivate_vault |-> <<"vault">>, check_withdraw_allowed |-> <<"profile">>,
    cancel_withdrawal |-> <<"profile", "ops">>, claim_withdrawal |-> <<"profile", "ops">>,
    acquire_withdraw_lock |-> <<"profile">>, release_withdraw_lock |-> <<"profile">>,
    acquire_stake_lock |-> <<"profile">>, release_stake_lock |-> <<"profile">>,
    acquire_unstake_lock |-> <<"profile">>, release_unstake_lock |-> <<"profile">>,
    create_deposit |-> <<"profile", "wallet", "amount", "tx", "exchange", "chain">>,
    create_stake |-> <<"staker", "vaultWallet", "amount", "tx", "exchange", "chain">>,
    create_unstake |-> <<"staker", "vault", "vaultWallet", "shares", "exchange", "chain">>,
    cancel_unstake |-> <<"profile", "ops">>,
    create_referral_payout |-> <<"id", "profile", "amount">>,
    process_deposit |-> <<"profile", "wallet", "deposit", "amount", "tx", "pooled", "exchange",
                          "chain", "contract">>,
    process_deposit_unknown |-> <<"wallet", "deposit", "amount", "tx", "exchange", "chain",
                                  "contract">>,
    process_stake |-> <<"staker", "vault", "vaultWallet", "stake", "amount", "nav", "tx",
                        "fromBalance", "exchange">>,
    create_withdrawal |-> <<"profile", "wallet", "amount", "exchange">>,
    pending_deposit_canceled |-> <<"ops">>, get_pending_deposits |-> <<"exchange", "chain">>,
    get_pending_stakes |-> <<"exchange", "chain">>,
    get_pending_withdrawals |-> <<"exchange", "chain">>, get_all_pending_withdrawals |-> <<>>,
    update_pending_withdrawals |-> <<"block", "dueBlock", "contract">>,
    get_vault_manager_profile_id |-> <<"vault">>, get_vault_info |-> <<"vault">>,
    get_holding_info |-> <<"vault", "staker">>,
    process_unstakes |-> <<"vault", "from", "to", "nav", "withdrawable", "fee", "treasurer",
                           "shares", "exchange">>,
    get_withdrawals_suspended |-> <<>>, suspend_withdrawals |-> <<>>,
    processing_withdrawal |-> <<"profile", "tx", "ops">>,
    get_last_processed_block_number |-> <<"contract", "chain", "event">>,
    set_last_processed_block_number |-> <<"block", "contract", "chain", "event">>,
    completed_withdrawals |-> <<"withdrawals">>, get_settlement_state |-> <<>>,
    get_processing_ops |-> <<>>, delete_unknown_ops |-> <<>> ]

MarketProfileHandlers ==
  [ get_profiles_meta_after_ts |-> <<"ts">>,
    update_leverage |-> <<"profile", "market", "leverage">>, getter_which_tier |-> <<"profile">>,
    update_insurance_id |-> <<"insuranceId", "market">>,
    add_tier |-> <<"tier", "title", "makerFee", "takerFee", "minVolume", "minAssets">>,
    edit_tier |-> <<"tier", "title", "makerFee", "takerFee", "minVolume", "minAssets">>,
    remove_tier |-> <<"tier">>, add_special_tier |-> <<"tier", "title", "makerFee", "takerFee">>,
    edit_special_tier |-> <<"tier", "title", "makerFee", "takerFee">>,
    remove_special_tier |-> <<"tier">>, add_profile_to_special_tier |-> <<"profile", "tier">>,
    remove_profile_from_tier |-> <<"profile">>, get_tiers |-> <<>>, get_special_tiers |-> <<>>,
    get_profile_tiers |-> <<>>, process_referral_payout |-> <<"market">> ]

ProfileGettersHandlers ==
  [ get_profile_data |-> <<"profile">>, get_extended_profile_data |-> <<"profile">>,
    get_extended_profiles |-> <<"profiles">>, get_open_positions |-> <<"profile">>,
    get_requested_unstakes |-> <<"profile">>, get_open_orders |-> <<"profile">>,
    get_exchange_data |-> <<>>, liquidation_batch |-> <<"lastIdChecked", "limit">>,
    is_inv3_valid |-> <<"buffer">>, cached_is_inv3_valid |-> <<"buffer">>,
    list_operations |-> <<"profile", "offset", "limit">>, get_tiers |-> <<>>,
    get_profiles_special_tiers |-> <<>>, get_affiliate_profiles_tiers |-> <<>> ]

MarketOwnHandlers ==
  [ update_index_price |-> <<"market", "indexPrice">>, get_market_data |-> <<"market">>,
    get_funding_meta |-> <<"market">>, update_icon_url |-> <<"market", "url">>,
    update_market_title |-> <<"market", "title">> ]

ProfileAirdropHandlers ==
  [ create_airdrop |-> <<"title", "from", "to">>,
    set_profile_total |-> <<"profile", "airdropTitle", "totalRewards", "claimable">>,
    update_profile_claimable |-> <<"profile", "airdropTitle">>,
    update_all_profile_airdrops |-> <<"profile">>, pending_claim |-> <<"profile">>,
    finish_claim |-> <<"profile">>, claim_all |-> <<"profile", "airdropTitle">>,
    get_profile_airdrops |-> <<"profile">>,
    delete_all_airdrops |-> <<"title", "from", "to", "profile", "totalRewards", "claimable">>,
    test_create_claim_ops |-> <<"profile", "airdropTitle", "claimable">>,
    test_get_claim_ops |-> <<"ops">> ]

GatewayPublicHandlers ==
  [ new_order |-> <<"profile", "market", "orderType", "side", "price", "size", "clientOrderId",
                    "triggerPrice", "sizePercent", "timeInForce", "customOrderId", "meta">>,
    cancel_order |-> <<"profile", "market", "orderId", "clientOrderId">>,
    amend_order |-> <<"profile", "market", "orderId", "price", "size", "triggerPrice",
                      "sizePercent">>,
    cancel_all |-> <<"profile", "isLiquidation">>, deadman_create |-> <<"profile", "timeout">>,
    deadman_delete |-> <<"profile">>, deadman_get |-> <<"profile">> ]

ProfileCacheHandlers ==
  [ get_cache |-> <<"profile">>, invalidate_cache |-> <<"profile">>,
    invalidate_cache_and_notify |-> <<"profile">>,
    process_yield_and_invalidate |-> <<"yield", "amount", "tx", "exchange", "chain",
                                       "contract">> ]

ProfileOwnHandlers ==
  [ create |-> <<"profileType", "status", "wallet", "exchange">>, get |-> <<"profile">>,
    get_by_wallet_for_exchange_id |-> <<"wallet", "exchange">>,
    update_status |-> <<"profile", "newStatus">>, update_last_checked |-> <<"profile">>,
    merge_unknown_ops |-> <<>>, is_valid_signer |-> <<"vault", "wallet", "role">>,
    add_permission |-> <<"vault", "wallet", "role">>, wds_per_24h |-> <<>> ]

GatewayInternalHandlers ==
  [ high_priority_cancell_all |-> <<"profile", "isLiquidation">>,
    queue_liq_actions |-> <<"actions">>, is_cancel_all_accepted |-> <<"profile">>,
    execute_order |-> <<"profile", "market", "orderId">> ]

MarketPositionHandlers ==
  [ get_all_active_positions |-> <<"market", "offset", "limit">>,
    get_winning_positions |-> <<"side">> ]

PubsubHandlers ==
  [ publish_data_batch |-> <<"batch", "ttl", "size", "metaTtl">> ]

MarketSettersHandlers ==
  [ update_profiles_to_tiers |-> <<"profilesTiers">> ]

AuthHandlers ==
  [ write_frontend_storage |-> <<"profile", "data">>, read_frontend_storage |-> <<"profile">>,
    api_update_api_secret_expire |-> <<"key", "newExpiredAt">>,
                                       api_list_secrets |-> <<"profile">>,
    api_refresh_secret |-> <<"profile", "refreshToken", "newJwt", "newRefreshToken",
                             "newExpiredAt">>,
    api_secret_validate |-> <<"key", "ip", "now">>, api_delete_secret_key |-> <<"profile",
                              "key">>,
    api_secret_pair_create |-> <<"apiSecret", "jwt", "refreshToken", "ips">>,
    remove_session_secrets |-> <<"profile">>, api_secret_by_key |-> <<"key">>,
    get_or_refresh_api_secret_by_profile_id |-> <<"profile", "newApiSecret">>,
    api_secret_by_profile_id |-> <<"profile">>,
    frontend_secret_create |-> <<"frontendSecret", "oldJwt">>,
                                 frontend_secret_by_jwt |-> <<"jwt">>,
    frontend_secret_by_refresh_token |-> <<"refreshToken">>,
    frontend_secret_update |-> <<"frontendSecret">> ]

MarketEngineHandlers ==
  [ get_orderbook_data |-> <<"market">>,
    pay_funding |-> <<"market", "fundingPayments", "lastUpdateTime", "totalLong", "totalShort">> ]

MarketTradeHandlers ==
  [ get_trade_data |-> <<"limit">> ]

MarketOrderHandlers ==
  [ get_all_orders |-> <<"profile", "limit">>,
    get_all_orders2 |-> <<"profile", "orderStatus", "orderType">> ]

MarketCandlesHandlers ==
  [ get_candles |-> <<"period", "timeFrom", "timeTo">> ]

ProfileSettersHandlers ==
  [ update_profiles_caches_and_metas |-> <<"data">> ]

MarketArchiverHandlers ==
  [ get_next_batch |-> <<"space", "fromArchiveId", "limit">> ]

(* The modules that a role makes global when its configuration is applied. *)
GatewayRole == [public |-> GatewayPublicHandlers, internal |-> GatewayInternalHandlers]
ProfileRole ==
    [profile |-> ProfileOwnHandlers, getters |-> ProfileGettersHandlers, setters |-> ProfileSettersHandlers,
     balance |-> BalanceHandlers, cache |-> ProfileCacheHandlers, airdrop |-> ProfileAirdropHandlers]
MarketRole ==
    [order |-> MarketOrderHandlers, engine |-> MarketEngineHandlers, market |-> MarketOwnHandlers,
     profile |-> MarketProfileHandlers, trade |-> MarketTradeHandlers, candles |-> MarketCandlesHandlers,
     balance |-> BalanceHandlers,
     position |-> MarketPositionHandlers, archiver |-> MarketArchiverHandlers,
     setters |-> MarketSettersHandlers]
AuthRole == [global |-> AuthHandlers]
PubsubRole == [global |-> PubsubHandlers]

Published == ("api-gateway" :> GatewayRole) @@ ("profile" :> ProfileRole) @@ ("market" :> MarketRole)
             @@ ("auth" :> AuthRole) @@ ("pubsub" :> PubsubRole)

(* The role of the instance asked has the procedure under that name.       *)
Known(c) ==
    /\ c.module \in DOMAIN Published[c.role]
    /\ c.procedure \in DOMAIN Published[c.role][c.module]

(* Every parameter receives the argument that means it.  An argument too   *)
(* many is ignored; a parameter without one fails the check of its type.   *)
Binds(c) ==
    LET params == Published[c.role][c.module][c.procedure]
    IN  \A i \in DOMAIN params : i \in DOMAIN c.args /\ c.args[i] = params[i]
================================================================================
