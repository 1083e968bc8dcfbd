---------------------------- MODULE MCProvisioning ---------------------------
(* An instance of Provisioning for TLC: two groups with a database of one name. *)
EXTENDS Provisioning, TLC

CONSTANTS n1, n2, core, edge, app, coreApp, edgeApp

MCKeys == <<coreApp, edgeApp>>
MCGroupOf == coreApp :> core @@ edgeApp :> edge
MCNameOf == coreApp :> app @@ edgeApp :> app

\* Each build, each way to call, each mode; encryption keys matter to one build.
MCSettings == {{"Credentials"}, {"libsql_embed", "Credentials"},
               {"libsql_embed", "UseEmbedded"},
               {"libsql_embed", "WithTransport", "Credentials"},
               {"libsql_embed", "WithTransport", "UseEmbedded"}}
MCFlags == {{}, {"PureLocal"}, {"AuthToken"}, {"PureLocal", "AuthToken"},
            {"AuthToken", "EncryptionKey"}}
=============================================================================
