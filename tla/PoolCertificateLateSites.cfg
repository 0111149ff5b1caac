CONSTANTS
  Pools = {k1, k2}
  CrossKVs = {x1}
  Addresses = {a1, a2, a3, a4}
  Nowhere = Nowhere
  PromptFirst = FALSE
SPECIFICATION CertificateSpec
INVARIANT KeptGraphsAreLive
