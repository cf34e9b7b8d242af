----------------------------- MODULE Configuration -----------------------------
(***************************************************************************)
(* From a configuration to the registry: what AppSettings accepts          *)
(* (config/settings.py), and how PoolFactory and ConnectionRegistry build  *)
(* one pool per data source (connection/registry.py).                      *)
(***************************************************************************)
EXTENDS Integers, Sequences, FiniteSets

CONSTANTS
    DefaultMax, \* max_size where none is given
    Absent

\* DataSourceSettings, as far as it is checked.
DataSources(Names, Sizes) ==
    [name : Names, min_size : Sizes, max_size : Sizes \cup {Absent}]

\* to_pool_policy(): max_size, given or not.
MaxSize(d) == IF d.max_size = Absent THEN DefaultMax ELSE d.max_size

\* PoolSettings: a default is not validated.
SizesAccepted(d) ==
    /\ d.min_size >= 0
    /\ d.max_size # Absent => d.max_size >= 1 /\ d.max_size >= d.min_size

\* Mutant: two data sources may have one name.
AcceptedMutant(ds) == ds # <<>> /\ \A i \in DOMAIN ds : SizesAccepted(ds[i])

\* load_settings(): AppSettings validates, or ConfigError.
Accepted(ds) ==
    /\ ds # <<>>
    /\ \A i \in DOMAIN ds : SizesAccepted(ds[i])
    /\ \A i, j \in DOMAIN ds : ds[i].name = ds[j].name => i = j

\* AsyncConnectionPool() refuses other sizes with a ValueError.
PoolBuilt(d) == MaxSize(d) >= 1 /\ d.min_size <= MaxSize(d)

\* build(): register() each data source, which no name may have been before.
Registered(ds) ==
    IF \E i, j \in DOMAIN ds : i < j /\ ds[i].name = ds[j].name
    THEN [error |-> "ConfigError"]
    ELSE IF \E i \in DOMAIN ds : ~PoolBuilt(ds[i]) THEN [error |-> "ValueError"]
    ELSE [error |-> "none",
          pools |-> [n \in {ds[i].name : i \in DOMAIN ds} |->
                        CHOOSE d \in {ds[i] : i \in DOMAIN ds} : d.name = n]]
===============================================================================
