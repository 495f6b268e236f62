---- MODULE MCStorageProbe ----
EXTENDS StorageProbe
====
