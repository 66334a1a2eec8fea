----------------------------- MODULE MCFirmware -----------------------------
EXTENDS Firmware

\* One that moves the shell to USB; one that uses the connector of the I2C bus and
\* a name that does not exist.  A card that cannot be read stands for an empty one.
CardConfigs == {[shell_port |-> "USB"],
                [datagram_message_port |-> "CONN_I2C", sumd_input |-> "CONN5"]}
ErrorLevels == {"WARNING", "CRITICAL"}
FrameSizes  == {2, 3}
=============================================================================
