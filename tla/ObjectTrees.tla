---------------------------- MODULE ObjectTrees -----------------------------
(***************************************************************************)
(* The object trees of all the drivers, under the methods a client reaches *)
(* them by: explore_list and explore_describe of the driver that its       *)
(* connection has.  content is what the server holds, of the driver's kind.*)
(***************************************************************************)
EXTENDS Relational

CONSTANTS
  Upper,       \* names in upper case, for Oracle
  Buckets,     \* names of GridFS buckets
  NameOrder,   \* names, in the order they sort
  Configured,  \* S3: the buckets named by the connection
  KeyOrder     \* S3: buckets and keys, in the order they sort

Sqlite     == INSTANCE SqliteTree
Duckdb     == INSTANCE DuckdbTree
Postgres   == INSTANCE PostgresTree
Oracle     == INSTANCE OracleTree
SqlServer  == INSTANCE SqlServerTree
Mongo      == INSTANCE MongoTree
Neo4j      == INSTANCE Neo4jTree
Elastic    == INSTANCE ElasticTree
Prometheus == INSTANCE PrometheusTree
S3         == INSTANCE S3Tree WITH NameOrder <- KeyOrder

RelationalDrivers == {"sqlite", "duckdb", "postgres", "oracle", "sqlserver"}

FindPaths(driver) ==
  CASE driver = "sqlite" -> Sqlite!FindPaths
    [] driver = "duckdb" -> Duckdb!FindPaths
    [] driver = "postgres" -> Postgres!FindPaths
    [] driver = "oracle" -> Oracle!FindPaths
    [] driver = "sqlserver" -> SqlServer!FindPaths
    [] driver = "mongodb" -> Mongo!FindPaths
    [] driver = "neo4j" -> Neo4j!FindPaths
    [] driver = "elasticsearch" -> Elastic!FindPaths
    [] driver = "prometheus" -> Prometheus!FindPaths
    [] OTHER -> [none |-> <<>>]

ExploreList(driver, content, path) ==
  CASE driver = "sqlite" -> Sqlite!List(content, path)
    [] driver = "duckdb" -> Duckdb!List(content, path)
    [] driver = "postgres" -> Postgres!List(content, path)
    [] driver = "oracle" -> Oracle!List(content, path)
    [] driver = "sqlserver" -> SqlServer!List(content, path)
    [] driver = "mongodb" -> Mongo!List(content, path)
    [] driver = "neo4j" -> Neo4j!List(content, path)
    [] driver = "elasticsearch" -> Elastic!List(content, path)
    [] driver = "prometheus" -> Prometheus!List(content, path)
    [] OTHER -> S3!List(content, path)

ExploreDescribe(driver, content, path) ==
  CASE driver = "sqlite" -> Sqlite!Describe(content, path)
    [] driver = "duckdb" -> Duckdb!Describe(content, path)
    [] driver = "postgres" -> Postgres!Describe(content, path)
    [] driver = "oracle" -> Oracle!Describe(content, path)
    [] driver = "sqlserver" -> SqlServer!Describe(content, path)
    [] driver = "mongodb" -> Mongo!Describe(content, path)
    [] driver = "neo4j" -> Neo4j!Describe(content, path)
    [] driver = "elasticsearch" -> Elastic!Describe(content, path)
    [] driver = "prometheus" -> Prometheus!Describe(content, path)
    [] OTHER -> S3!Describe(content, path)
=============================================================================
