SPECIFICATION Spec
CONSTANTS
    u1 = u1
    r1 = r1
    Upstreams = {u1}
    Packages = {p1}
    Repos = {r1}
    RepoOf <- MCRepoOf
    JobIds = {j1, j2}
    Workers = {w1}
    MaxBackoff = 2
    MaxAge = 1
    MaxDeaths = 1
    NoJob = NoJob
PROPERTIES
    RetryReschedules
