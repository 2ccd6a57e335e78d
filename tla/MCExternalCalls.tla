--------------------------- MODULE MCExternalCalls ---------------------------
(* The small runs TLC checks: an HTTP endpoint first and a provider next with *)
(* every provider and credential, or one HTTP endpoint and several workers.   *)
EXTENDS ExternalCalls

HttpThenAi == <<"HTTP", "AI">>
OneHttp == <<"HTTP">>

AllConfigurations == [provider: Providers, credential: Credentials]

\* A run without an aiPrompt node asks no provider.
OneConfiguration == [provider: {"DETERMINISTIC"}, credential: {"NONE"}]

=============================================================================
