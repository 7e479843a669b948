--------------------------- MODULE DynamicWallet ---------------------------
(***************************************************************************)
(* src/integrations/dynamic/dynamicWallet.ts: the wallet that Dynamic says *)
(* is the primary one, and the client that signs.  The two are set apart:  *)
(* the wallet at once, the client when the wallet's connector has answered *)
(* a request, and answers come in any order.                               *)
(***************************************************************************)
EXTENDS Naturals

CONSTANTS
    Wallets,       \* the wallets a user may connect
    Connecting,    \* those whose connector makes clients when it is asked
    Injected,      \* those that use the client of the page
    MaxOpenings    \* bound: the clients that are asked for

ASSUME WalletAssumption ==
    /\ Connecting \subseteq Wallets /\ Injected \subseteq Wallets \ Connecting
    /\ MaxOpenings \in Nat

VARIABLES
    activeWallet,  \* activeWallet and primaryWalletInstance
    walletClient,  \* the wallet whose client is kept
    openings,      \* connections -> the wallet whose client is awaited
    opened         \* the connections that were made

walletVars == <<activeWallet, walletClient, openings, opened>>

NoWallet == "no wallet"
Openings == 1..MaxOpenings

WalletInit ==
    /\ activeWallet = NoWallet /\ walletClient = NoWallet
    /\ openings = [n \in Openings |-> NoWallet]
    /\ opened = 0

\* setActiveWallet up to its await: the client of another wallet stays.
setActiveWallet(w) ==
    /\ opened < MaxOpenings
    /\ opened' = opened + 1
    /\ activeWallet' = w
    /\ openings' = IF w \in Connecting THEN [openings EXCEPT ![opened + 1] = w]
                                       ELSE openings
    /\ walletClient' = IF w \in Injected THEN w ELSE walletClient

\* The connector answers, or throws: then whatever client there is stays.
ClientOpened(n) ==
    /\ openings[n] # NoWallet
    /\ walletClient' \in {openings[n], walletClient}
    /\ openings' = [openings EXCEPT ![n] = NoWallet]
    /\ UNCHANGED <<activeWallet, opened>>

\* disconnect does not wait for what was asked for.
disconnect ==
    /\ activeWallet' = NoWallet /\ walletClient' = NoWallet
    /\ UNCHANGED <<openings, opened>>

WalletStep ==
    \/ \E w \in Wallets : setActiveWallet(w)
    \/ \E n \in Openings : ClientOpened(n)
    \/ disconnect

=============================================================================
