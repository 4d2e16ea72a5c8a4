------------------------------- MODULE Invitations -------------------------------
(* Referral codes and the links they make (src/api/referral.go,            *)
(* src/api/onboarding.go, CreateReferralLink in src/referrals/utils.go).   *)
(* The link of a newcomer is made by a goroutine of its own, after its     *)
(* profile, while the codes may be changed and the newcomer may ask again. *)
EXTENDS Integers, FiniteSets, FiniteSetsExt

CONSTANTS
    Inviters,           \* profiles that may have a code
    Newcomers,          \* wallets that onboard
    OnboardRequests,
    CodeTexts,          \* texts of a code
    InLower,            \* per text the text in lower case
    MaxEdits,           \* bound: codes created and edited
    NoCode

VARIABLES
    referralCode,       \* app_referral_code: per profile its text, or NoCode
    amends,             \* amend_counter
    edits,              \* codes created and edited
    invitedBy,          \* app_referral_link: per newcomer the inviter, or NoCode
    onboarding,         \* per request step, wallet, code of the newcomer, newProfile
    hadCode,            \* history: profiles and the codes they had, in lower case
    creation            \* per newcomer, history: the code that its profile was created with,
                        \* who had the code, that code's amends, whether the request went wrong

inviteVars == <<referralCode, amends, edits, hadCode, invitedBy, onboarding, creation>>

NoCreation == [text |-> NoCode, owner |-> NoCode, amends |-> 0, lost |-> FALSE]
HasProfile(n) == creation[n].text # NoCode
OnboardingAt(r, step) == onboarding[r].step = step
NewWallet(r) == onboarding[r].wallet
Typed(r) == onboarding[r].text

WithCode == {p \in Inviters : referralCode[p] # NoCode}

(* LOWER(short_code) = the text in lower case.                             *)
Owners(text) == {p \in WithCode : InLower[referralCode[p]] = InLower[text]}

InviteInit ==
    /\ referralCode = [p \in Inviters |-> NoCode]
    /\ amends = [p \in Inviters |-> 0] /\ edits = 0 /\ hadCode = {}
    /\ invitedBy = [n \in Newcomers |-> NoCode]
    /\ onboarding = [r \in OnboardRequests |->
                        [step |-> "none", wallet |-> NoCode, text |-> NoCode, new |-> FALSE]]
    /\ creation = [n \in Newcomers |-> NoCreation]

-------------------------------------------------------------------------------
(* The unique index over UPPER(short_code).                                *)
CodeFree(p, text) == Owners(text) \subseteq {p}

TakeCode(p, text) ==
    /\ edits < MaxEdits /\ edits' = edits + 1
    /\ CodeFree(p, text)
    /\ referralCode' = [referralCode EXCEPT ![p] = text]
    /\ hadCode' = hadCode \cup {<<p, InLower[text]>>}

(* A code is drawn; a second one of the profile, or a used one, is refused.*)
HandleReferralCreate(p) ==
    /\ p \notin WithCode /\ \E text \in CodeTexts : TakeCode(p, text)
    /\ UNCHANGED <<amends, invitedBy, onboarding, creation>>

(* Without a code the update has no row.                                   *)
HandleReferralEdit(p) ==
    /\ p \in WithCode /\ \E text \in CodeTexts : TakeCode(p, text)
    /\ amends' = [amends EXCEPT ![p] = @ + 1]
    /\ UNCHANGED <<invitedBy, onboarding, creation>>

-------------------------------------------------------------------------------
GoOn(r, step) == onboarding' = [onboarding EXCEPT ![r].step = step]

(* A newcomer asks, with the code that somebody told it.                   *)
HandleOnboarding(r) ==
    /\ OnboardingAt(r, "none")
    /\ \E n \in Newcomers, text \in CodeTexts :
         onboarding' = [onboarding EXCEPT ![r] = [step |-> "lookup", wallet |-> n, text |-> text, new |-> FALSE]]
    /\ UNCHANGED <<referralCode, amends, edits, hadCode, invitedBy, creation>>

GetProfileByWallet(r) ==
    /\ OnboardingAt(r, "lookup")
    /\ GoOn(r, IF HasProfile(NewWallet(r)) THEN "secret" ELSE "profile")
    /\ UNCHANGED <<referralCode, amends, edits, hadCode, invitedBy, creation>>

(* The profile service refuses a second profile of a wallet.               *)
CreateNewProfile(r) ==
    /\ OnboardingAt(r, "profile")
    /\ IF HasProfile(NewWallet(r)) THEN GoOn(r, "done") /\ UNCHANGED creation
       ELSE /\ onboarding' = [onboarding EXCEPT ![r].step = "secret", ![r].new = TRUE]
            /\ \E owner \in IF Owners(Typed(r)) = {} THEN {NoCode} ELSE Owners(Typed(r)) :
                 creation' = [creation EXCEPT ![NewWallet(r)] =
                                [text |-> Typed(r), owner |-> owner, lost |-> FALSE,
                                 amends |-> IF owner = NoCode THEN 0 ELSE amends[owner]]]
    /\ UNCHANGED <<referralCode, amends, edits, hadCode, invitedBy>>

(* Mutant: every onboarding with a code makes a link.                      *)
EarnsLinkAlways(r) == TRUE

EarnsLink(r) == onboarding[r].new

Onboarded(r) ==
    /\ OnboardingAt(r, "secret") /\ GoOn(r, IF EarnsLink(r) THEN "link" ELSE "done")
    /\ UNCHANGED <<referralCode, amends, edits, hadCode, invitedBy, creation>>

(* Secret or profile data fail, or the process ends; the profile is there  *)
(* and the link will not be made.                                          *)
OnboardingFails(r) ==
    /\ onboarding[r].step \in {"lookup", "profile", "secret", "link"} /\ GoOn(r, "done")
    /\ creation' = [creation EXCEPT ![NewWallet(r)].lost = @ \/ onboarding[r].new]
    /\ UNCHANGED <<referralCode, amends, edits, hadCode, invitedBy>>

(* The subquery of the insert: without an owner profile_id would be null.  *)
OwnerInDb(text) == IF Owners(text) = {} THEN NoCode ELSE CHOOSE p \in Owners(text) : TRUE

(* A goroutine of its own; nobody looks at its error.                      *)
NewReferralLink(r) ==
    /\ OnboardingAt(r, "link") /\ GoOn(r, "done")
    /\ invitedBy' = IF invitedBy[NewWallet(r)] = NoCode
                    THEN [invitedBy EXCEPT ![NewWallet(r)] = OwnerInDb(Typed(r))] ELSE invitedBy
    /\ UNCHANGED <<referralCode, amends, edits, hadCode, creation>>

OnboardingStep(r) ==
    GetProfileByWallet(r) \/ CreateNewProfile(r) \/ Onboarded(r) \/ NewReferralLink(r)

InviteNext ==
    \/ \E p \in Inviters : HandleReferralCreate(p) \/ HandleReferralEdit(p)
    \/ \E r \in OnboardRequests : HandleOnboarding(r) \/ OnboardingStep(r) \/ OnboardingFails(r)

InviteSpec == InviteInit /\ [][InviteNext]_inviteVars /\ \A r \in OnboardRequests : WF_inviteVars(OnboardingStep(r))

-------------------------------------------------------------------------------
(* A code, typed in any case, leads to one profile (CreateReferralLink).   *)
CodeLeadsToOne == \A text \in CodeTexts : Cardinality(Owners(text)) <= 1

(* Whoever asks again with the code of somebody else, or for a wallet that *)
(* has a profile, does not get another inviter: the inviter had the code   *)
(* of the request that created the profile (HandleOnboarding, newProfile). *)
InvitedByCreation ==
    \A n \in Newcomers : invitedBy[n] # NoCode => <<invitedBy[n], InLower[creation[n].text]>> \in hadCode

(* A newcomer whose profile was created with the code of an inviter is     *)
(* linked in the end, if the code stays what it is and the request does    *)
(* not fail half-way (CreateReferralLink).                                 *)
InvitedInTheEnd ==
    \A n \in Newcomers :
      LET made == creation[n]
          sound == made.owner # NoCode /\ ~made.lost /\ amends[made.owner] = made.amends
      IN  <>[](sound => invitedBy[n] = made.owner)

(* A newcomer is linked to the inviter whose code it came with, to nobody  *)
(* else, and in the end (HandleOnboarding, CreateReferralLink).            *)
InvitedRight ==
    [](CodeLeadsToOne /\ InvitedByCreation) /\ InvitedInTheEnd

================================================================================
