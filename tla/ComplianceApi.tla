------------------------------ MODULE ComplianceApi ------------------------------
(***************************************************************************)
(* The public compliance endpoints: KYC verification through Sumsub, or a  *)
(* mock of it, and KYT scoring of a payment from its amount, the chain and *)
(* a hash of the sender.  Both write an audit event before they answer,    *)
(* under an institution that stands for the public.                        *)
(***************************************************************************)
EXTENDS Integers, FiniteSets

CONSTANTS
    Calls,          \* requests to the two endpoints
    KytWallets,     \* wallets that pay and are paid
    VolumePoints,   \* VolumePoints[w]: 0..20, from the hash of the wallet
    Amounts,        \* amounts in dollars
    Unreachable,    \* the answer of the RPC node that never comes
    Unset

ASSUME VolumeIsSmall == VolumePoints \in [KytWallets -> 0..20]

ASSUME AmountsArePositive == Amounts \subseteq (Nat \ {0})

ASSUME UnreachableIsNoAnswer == Unreachable \notin BOOLEAN

CallSteps == {"idle", "creating-applicant", "getting-applicant", "asking-the-chain",
              "logging", "answered", "error"}

VARIABLES
    deployment,     \* sumsub: config.sumsub.appToken is set; publicRow: the
                    \* institution of public events exists, as no migration sees to
    onChain,        \* wallets with an account on chain
    reviews,        \* reviews[c]: Sumsub's answer on the applicant of call c
    call,           \* call[c]: the step, the input, and what was found out
    publicEvents    \* calls with an event in the audit log

complianceVars == <<deployment, onChain, reviews, call, publicEvents>>

NoCall == [step |-> "idle", kind |-> Unset, amount |-> 0, sender |-> Unset, receiver |-> Unset,
           senderExists |-> Unset, receiverExists |-> Unset, result |-> Unset]

ComplianceInit ==
    /\ deployment \in [sumsub : BOOLEAN, publicRow : BOOLEAN]
    /\ onChain \in SUBSET KytWallets
    /\ reviews = [c \in Calls |-> Unset]
    /\ call = [c \in Calls |-> NoCall]
    /\ publicEvents = {}

Reaches(c, step) == call' = [call EXCEPT ![c].step = step]
-----------------------------------------------------------------------------
(* POST /api/kyc/verify.                                                   *)

\* The mock finds every applicant GREEN; the schema makes every field of
\* the input present, which is level 3.
StartKyc(c) ==
    /\ call[c].step = "idle"
    /\ call' = [call EXCEPT ![c].kind = "kyc",
          ![c].step = IF deployment.sumsub THEN "creating-applicant" ELSE "logging",
          ![c].result = IF deployment.sumsub THEN Unset
                        ELSE [status |-> "verified", kycLevel |-> 3]]
    /\ UNCHANGED <<deployment, onChain, reviews, publicEvents>>

CreateKycApplicant(c) ==
    /\ call[c].step = "creating-applicant"
    /\ reviews' = [reviews EXCEPT ![c] = "init"]
    /\ Reaches(c, "getting-applicant")
    /\ UNCHANGED <<deployment, onChain, publicEvents>>

SumsubReviews(c) ==
    /\ reviews[c] = "init"
    /\ \E answer \in {"GREEN", "RED", "ERROR"} : reviews' = [reviews EXCEPT ![c] = answer]
    /\ UNCHANGED <<deployment, onChain, call, publicEvents>>

\* A mutant of KycResult: what is not rejected is verified.
KycUnlessRejected(answer) ==
    IF answer = "RED" THEN [status |-> "rejected", kycLevel |-> 0]
    ELSE [status |-> "verified", kycLevel |-> 3]

KycResult(answer) ==
    CASE answer = "GREEN" -> [status |-> "verified", kycLevel |-> 3]
      [] answer = "RED"   -> [status |-> "rejected", kycLevel |-> 0]
      [] OTHER            -> [status |-> "pending", kycLevel |-> 0]

GetKycApplicant(c) ==
    /\ call[c].step = "getting-applicant"
    /\ call' = [call EXCEPT ![c].step = "logging", ![c].result = KycResult(reviews[c])]
    /\ UNCHANGED <<deployment, onChain, reviews, publicEvents>>
-----------------------------------------------------------------------------
(* POST /api/kyt/score: the two wallets are looked up at the same time.    *)

StartKyt(c, amount, sender, receiver) ==
    /\ call[c].step = "idle"
    /\ call' = [call EXCEPT ![c].kind = "kyt", ![c].step = "asking-the-chain",
          ![c].amount = amount, ![c].sender = sender, ![c].receiver = receiver]
    /\ UNCHANGED <<deployment, onChain, reviews, publicEvents>>

CheckWalletExists(c, column, wallet) ==
    /\ call[c].step = "asking-the-chain"
    /\ call[c][column] = Unset
    /\ \E seen \in {(wallet \in onChain), Unreachable} :
          call' = [call EXCEPT ![c][column] = seen]
    /\ UNCHANGED <<deployment, onChain, reviews, publicEvents>>

WalletAppears(w) ==
    /\ w \notin onChain
    /\ onChain' = onChain \cup {w}
    /\ UNCHANGED <<deployment, reviews, call, publicEvents>>

AmountPoints(amount) ==
    IF amount < 1000 THEN 0 ELSE IF amount < 10000 THEN 10
    ELSE IF amount < 50000 THEN 25 ELSE 40

WalletAgePoints(exists) ==
    CASE exists = Unreachable -> 10 [] exists = TRUE -> 0 [] exists = FALSE -> 15

CounterpartyPoints(exists) ==
    CASE exists = Unreachable -> 12 [] exists = TRUE -> 0 [] exists = FALSE -> 25

Min100(n) == IF n < 100 THEN n ELSE 100

KytScore(amount, sender, senderExists, receiverExists) ==
    Min100(AmountPoints(amount) + WalletAgePoints(senderExists)
             + VolumePoints[sender] + CounterpartyPoints(receiverExists))

ScoreTransaction(c) ==
    LET me == call[c]
        score == KytScore(me.amount, me.sender, me.senderExists, me.receiverExists)
    IN  /\ me.step = "asking-the-chain" /\ me.senderExists # Unset /\ me.receiverExists # Unset
        /\ call' = [call EXCEPT ![c].step = "logging",
                                ![c].result = [score |-> score, passed |-> score <= 70]]
        /\ UNCHANGED <<deployment, onChain, reviews, publicEvents>>
-----------------------------------------------------------------------------
(* The end of both: the event, whose institution must exist, the answer.   *)

LogPublicEvent(c) ==
    /\ call[c].step = "logging"
    /\ IF deployment.publicRow
       THEN Reaches(c, "answered") /\ publicEvents' = publicEvents \cup {c}
       ELSE Reaches(c, "error") /\ UNCHANGED publicEvents
    /\ UNCHANGED <<deployment, onChain, reviews>>

\* Any call to Sumsub or to the database may throw, and is answered 500.
PublicCallFails(c) ==
    /\ call[c].step \in {"creating-applicant", "getting-applicant", "logging"}
    /\ Reaches(c, "error")
    /\ UNCHANGED <<deployment, onChain, reviews, publicEvents>>

HandleCall(c) ==
    \/ CreateKycApplicant(c) \/ GetKycApplicant(c)
    \/ CheckWalletExists(c, "senderExists", call[c].sender)
    \/ CheckWalletExists(c, "receiverExists", call[c].receiver)
    \/ ScoreTransaction(c) \/ LogPublicEvent(c)

ComplianceNext ==
    \/ \E c \in Calls :
        \/ StartKyc(c)
        \/ \E amount \in Amounts, s, r \in KytWallets : StartKyt(c, amount, s, r)
        \/ HandleCall(c) \/ PublicCallFails(c) \/ SumsubReviews(c)
    \/ \E w \in KytWallets : WalletAppears(w)

ComplianceSpec ==
    ComplianceInit /\ [][ComplianceNext]_complianceVars
        /\ \A c \in Calls : WF_complianceVars(HandleCall(c))
-----------------------------------------------------------------------------
Small(amount) == amount < 1000
Large(amount) == amount >= 50000

\* What a score says of its payment.
ScoreHolds(c) ==
    LET me == call[c]
    IN  /\ Large(me.amount) /\ me.senderExists = FALSE /\ me.receiverExists = FALSE
              => ~me.result.passed
        /\ Small(me.amount) => me.result.passed
        /\ KytScore(me.amount, me.sender, TRUE, TRUE) <= me.result.score
        /\ me.result.score <= KytScore(me.amount, me.sender, FALSE, FALSE)

(* No one gets an answer that is not in the audit log, so no one gets any  *)
(* before the institution of those events exists.  A caller told that a    *)
(* wallet is verified, in a call that went through Sumsub, was told so     *)
(* after Sumsub's GREEN for that applicant.  Whatever the sender's hash:   *)
(* a payment of 50,000 or more between wallets without history never       *)
(* passes, one under 1,000 always does, and a wallet that appears between  *)
(* the look-ups, or an RPC node that does not answer, moves a score only   *)
(* between those of a wallet known and unknown.                            *)
PublicAnswersHold ==
    \A c \in Calls : call[c].step = "answered" =>
        LET me == call[c]
        IN  /\ c \in publicEvents /\ deployment.publicRow
            /\ me.kind = "kyc" /\ deployment.sumsub /\ me.result.status = "verified"
                  => reviews[c] = "GREEN"
            /\ me.kind = "kyt" => ScoreHolds(c)
=============================================================================
