------------------------ MODULE MCPlatformAccounts ------------------------
(* An instance of PlatformAccounts with a legacy account l1 and machines m1, m2. *)
EXTENDS PlatformAccounts, TLC

CONSTANTS l1, m1, m2, s1, s2, s3, n1, n2, e1

\* A machine with two sessions, another with one, and a legacy account that is only looked up.
MCHolders == s1 :> m1 @@ s2 :> m1 @@ s3 :> m2
MCInitialName == l1 :> n1
==========================================================================
