----------------------------- MODULE MCLogFiles -----------------------------
EXTENDS LogFiles

FileNames == {"config", "version", "mpu6000", "rc"}
NewlineAt == {<<"config", 0, 6>>}
=============================================================================
