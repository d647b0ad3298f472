-------------------------- MODULE MCRepoGovernance --------------------------
EXTENDS RepoGovernance
CONSTANTS p1, p2, g1, own, alias, platform

MCRemotes == {own, alias, platform}
MCPlatform == {platform}
MCPlatformClass == {alias, platform}
MCPlays == [p \in {p1, p2} |->
  IF p = p1 THEN {"attach", "claim", "close"}
  ELSE {"attach", "list", "create", "revalidate", "context", "close"}]
=============================================================================
