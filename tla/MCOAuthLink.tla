---------------------------- MODULE MCOAuthLink ----------------------------
(* Instances of OAuthLink for TLC. *)
EXTENDS OAuthLink, TLC

CONSTANTS g1, g2   \* identities of one provider, which compete for an account

SameProvider == (g1 :> "google") @@ (g2 :> "google")
=============================================================================
